---- MODULE Spec2Model ----
(***************************************************************************)
(* Model of the database connectivity layer of api/common/src:             *)
(* BaseDBConnector and its Firebird / MySQL / PostgreSQL connectors        *)
(* (connectorDB.py) and the CRUD engine built on them (crud.py).           *)
(*                                                                         *)
(* One connector instance and one CRUD engine on it are modelled.  The     *)
(* database drivers are external libraries: they appear as the driver      *)
(* connection object the connector holds, with the outcomes the drivers    *)
(* can produce (refusal, a connection dropped by the peer, a failing       *)
(* statement, a failing commit / rollback / close).                        *)
(*                                                                         *)
(* Three further parts have specifications of their own: the connection    *)
(* manager's credential vault (SpecVault), the two connector registries    *)
(* (SpecRegistry) and get_table_metadata of the three connectors           *)
(* (SpecMetadata; SpecCatalog for names the catalog does not resolve and   *)
(* for the numeric catalog values).  SpecConnect runs the connector's      *)
(* lifecycle on every configuration of the recognized keys; SpecSession    *)
(* runs guarded blocks with the history of their updates kept.             *)
(***************************************************************************)
EXTENDS Integers, Sequences, FiniteSets, TLC

\* ---------------------------------------------------------------- bounds
MaxKey  == 1      \* primary-key values are 1..MaxKey
MaxConns == 2     \* physical connections the connector may have open at once
MaxLen  == 2      \* longest plaintext credential, in characters
MaxRows == 2      \* rows the index catalog returns for a table

\* ------------------------------------------------------- values and names
NONE  == "None"   \* Python None / a key missing from the configuration
NULL  == 0        \* SQL NULL in a row

Dialects == {"firebird", "mysql", "postgresql"}
Keys     == 1..MaxKey
Nomes    == {1}                            \* non-null values of the column nome
Tables   == {"clientes"}                   \* the table written to
QueryTables == {"clientes", "missing"}    \* tables read; "missing" does not exist
Columns  == <<"id", "nome">>              \* the columns of clientes, in catalog order

VARIABLES
  db_type,           \* IDBConnector.db_type
  config,            \* IDBConnector.config (the decrypted configuration)
  driver_available,  \* fdb_available / mysql_connector_available / psycopg2_available
  connection,        \* IDBConnector.connection: NONE or the driver connection object
  connObj,           \* state of that object: "open", "dropped" (lost / unusable), "none"
  leaked,            \* connections opened by the connector, still open, no longer referenced
  committed,         \* rows of clientes that are durable
  view,              \* rows of clientes as the connection's current transaction sees them
  inBlock,           \* TRUE between __enter__ and __exit__ of a with-statement
  txn,               \* history of the begin / create / commit|rollback scenario
  last,              \* the latest call on the connector or the CRUD engine and its outcome
  hist,              \* history of the session: rows made in the block, view at begin
  file_state,        \* the configuration file: "ok", "missing", "dir", "badjson"
  file_config,       \* the JSON object the configuration file holds
  key_files,         \* the key files on disk, by path
  env_key,           \* environment variable DB_ENCRYPTION_KEY
  raw_config,        \* DBConnectionManager.raw_config
  decrypted_config,  \* DBConnectionManager.decrypted_config
  mgr,               \* the latest call on a connection manager and its outcome
  drivers,           \* dialects whose driver module was imported at process start
  connectors,        \* connector_manager.DBConnectionManager._connectors
  logical,           \* the table the three databases hold, and how their catalogs report it
  metadata           \* the TableMetadata each dialect's connector returned for it

connectorVars == <<db_type, config, driver_available, connection, connObj, leaked,
                   committed, view, inBlock, txn, last, hist>>

vaultVars == <<file_state, file_config, key_files, env_key, raw_config,
               decrypted_config, mgr>>

registryVars == <<drivers, connectors>>

managerVars == <<vaultVars, registryVars>>

metadataVars == <<logical, metadata>>

vars == <<connectorVars, managerVars, metadataVars>>

\* ---------------------------------------------------------- configuration
BaseConfig ==
  [host |-> "h", port |-> NONE, database |-> "db", user |-> "u", password |-> "p",
   dbname |-> NONE, schema |-> NONE, key_file_path |-> NONE, encryption_key |-> NONE]

\* The valid configuration and the ways a configuration can be defective.
ConfigCases ==
  { BaseConfig,
    [BaseConfig EXCEPT !.port = "abc"],
    [BaseConfig EXCEPT !.host = NONE],
    [BaseConfig EXCEPT !.database = NONE],
    [BaseConfig EXCEPT !.user = NONE],
    [BaseConfig EXCEPT !.user = " "],
    [BaseConfig EXCEPT !.password = NONE],
    [BaseConfig EXCEPT !.password = " "] }

\* Further configurations of the recognized keys: the database named under
\* dbname, a schema, the vault's key material left in the configuration.
ConnectConfigs ==
  ConfigCases \cup
  { [BaseConfig EXCEPT !.database = NONE, !.dbname = "db"],
    [BaseConfig EXCEPT !.schema = "public"],
    [BaseConfig EXCEPT !.key_file_path = "secret.key"],
    [BaseConfig EXCEPT !.encryption_key = "k1"] }

\* Python truthiness of a configuration value: None and "" are falsy.
Falsy(v) == v \in {NONE, ""}

\* str(v).strip()
Strip(v) == IF v = " " THEN "" ELSE v

\* `not v or not str(v).strip()`
BlankCredential(v) == Falsy(v) \/ Falsy(Strip(v))

\* int(v) succeeds
IsNumeric(v) == v \in {"3050", "3306", "5432"}

\* ------------------------------------------------ outcome of the last call
NoSql == [verb |-> "", table |-> "", cols |-> <<>>, marks |-> <<>>,
          wcols |-> <<>>, wmarks |-> <<>>]

NoCall ==
  [op |-> "init", table |-> "", fields |-> <<>>, conds |-> <<>>,
   outcome |-> "ok", calls |-> <<>>, sql |-> NoSql, params |-> <<>>,
   errQuery |-> NoSql, rows |-> <<>>, count |-> 0, exc |-> FALSE,
   kwargs |-> {}]

NoTxn == [stage |-> "idle", key |-> 0, fields |-> <<>>]

\* hist is kept when on.  made: the rows whose INSERT returned successfully
\* in the current guarded block and that no later successful statement of the
\* block, nor a rollback of the caller, touched.  stage / atBegin: "begun"
\* from a successful begin_transaction, with the rows the transaction saw
\* just before it, while the statements that follow succeed; "rolledback"
\* right after the rollback that follows.
NoHist == [on |-> FALSE, stage |-> "idle", atBegin |-> {}, made |-> {}]

Track(stage, atBegin, made) ==
  IF hist.on
    THEN [on |-> TRUE, stage |-> stage,
          atBegin |-> IF stage = "idle" THEN {} ELSE atBegin, made |-> made]
    ELSE hist

StillBegun(ok) == IF ok /\ hist.stage = "begun" THEN "begun" ELSE "idle"

\* -------------------------------------------------------- driver facts
\* hasattr(self.connection, attr) for the three driver connection classes.
HasAttr(attr) ==
  CASE attr = "begin"        -> db_type = "firebird"
    [] attr = "is_connected" -> db_type = "mysql"
    [] attr = "autocommit"   -> db_type \in {"mysql", "postgresql"}
    [] OTHER                 -> TRUE       \* commit, rollback, close, cursor

\* Physical connections opened by this connector that are open now.
OpenConnections ==
  leaked + (IF connection # NONE /\ connObj = "open" THEN 1 ELSE 0)

\* The calls a method makes are logged by name, in order; a call that raises
\* is logged with a trailing "!".  Commit, rollback and begin raise on a
\* connection that is lost.
Tried(call) ==
  IF connObj = "open" THEN call
  ELSE CASE call = "conn.commit"   -> "conn.commit!"
         [] call = "conn.rollback" -> "conn.rollback!"
         [] call = "conn.begin"    -> "conn.begin!"

\* Attempts of a call in a log, successful or not.
RECURSIVE CountOf(_, _)
CountOf(seq, x) ==
  IF seq = <<>> THEN 0
  ELSE (IF Head(seq) = x THEN 1 ELSE 0) + CountOf(Tail(seq), x)

\* ------------------------------------------------------------- connect()
\* What a call of connect() yields: the exception raised or "ok", the driver
\* calls made, and the new value of the connector's connection.
\* The keyword arguments of the driver's connect call: those the method
\* names, and every other key of the configuration that is not in the
\* method's filter list.
Named ==
  CASE db_type = "firebird"   -> {"database", "user", "password", "charset"}
    [] db_type = "mysql"      -> {"host", "database", "user", "password", "port"}
    [] db_type = "postgresql" -> {"host", "dbname", "user", "password", "port"}

Filtered ==
  CASE db_type = "firebird" ->
         {"host", "port", "database", "user", "password", "charset", "db_type"}
    [] OTHER ->
         {"host", "database", "user", "password", "port", "db_type"}

DriverArgs ==
  Named \cup {k \in DOMAIN config : config[k] # NONE /\ k \notin Filtered}

Raised(exc, calls) ==
  [outcome |-> exc, calls |-> calls, connection |-> connection,
   connObj |-> connObj, leaked |-> leaked, view |-> view,
   kwargs |-> IF calls = <<>> THEN {} ELSE DriverArgs]

Opened ==
  [outcome |-> "ok", calls |-> <<"driver.connect">>, connection |-> "conn",
   connObj |-> "open", leaked |-> OpenConnections, view |-> committed,
   kwargs |-> DriverArgs]

\* The four required-field checks shared by the three connect() methods.
MissingField ==
  \/ Falsy(config.host)
  \/ Falsy(config.database)
  \/ BlankCredential(config.user)
  \/ BlankCredential(config.password)

\* refuse: the driver's connect call raises (server unreachable, bad login ...)
FirebirdConnect(refuse) ==
  IF ~driver_available THEN Raised("ImportError", <<>>)
  ELSE IF MissingField THEN Raised("ConnectionError", <<>>)
  ELSE IF refuse \/ (config.port # NONE /\ ~IsNumeric(config.port))
       THEN Raised("ConnectionError", <<"driver.connect!">>)
  ELSE Opened

\* MySQLConnector.connect and PostgreSQLConnector.connect have the same steps.
AlreadyConnected ==
  [outcome |-> "ok", calls |-> <<>>, connection |-> connection,
   connObj |-> connObj, leaked |-> leaked, view |-> view, kwargs |-> {}]

MySQLConnect(refuse) ==
  IF connection # NONE THEN AlreadyConnected
  ELSE IF ~driver_available THEN Raised("ImportError", <<>>)
  ELSE IF config.port # NONE /\ ~IsNumeric(config.port) THEN Raised("ValueError", <<>>)
  ELSE IF MissingField THEN Raised("ConnectionError", <<>>)
  ELSE IF refuse THEN Raised("ConnectionError", <<"driver.connect!">>)
  ELSE Opened

PostgreSQLConnect(refuse) ==
  IF connection # NONE THEN AlreadyConnected
  ELSE IF ~driver_available THEN Raised("ImportError", <<>>)
  ELSE IF config.port # NONE /\ ~IsNumeric(config.port) THEN Raised("ValueError", <<>>)
  ELSE IF MissingField THEN Raised("ConnectionError", <<>>)
  ELSE IF refuse THEN Raised("ConnectionError", <<"driver.connect!">>)
  ELSE Opened

connect(refuse) ==
  CASE db_type = "firebird"   -> FirebirdConnect(refuse)
    [] db_type = "mysql"      -> MySQLConnect(refuse)
    [] db_type = "postgresql" -> PostgreSQLConnect(refuse)

\* ---------------------------------------------------------- disconnect()
\* closeFails: the driver's close() raises; it can on a connection that is lost.
Closed(calls) ==
  [calls |-> calls, connection |-> NONE, connObj |-> "none", view |-> committed]

Kept(calls) ==
  [calls |-> calls, connection |-> connection, connObj |-> connObj, view |-> view]

FirebirdDisconnect(closeFails) ==
  IF connection # NONE
  THEN IF closeFails /\ connObj = "dropped"
       THEN Kept(<<"conn.close!">>)
       ELSE Closed(<<"conn.close">>)
  ELSE Kept(<<>>)

MySQLDisconnect(closeFails) ==
  IF connection # NONE
  THEN IF HasAttr("is_connected") /\ connObj # "open"
       THEN Kept(<<"conn.is_connected">>)
       ELSE Closed(<<"conn.is_connected", "conn.close">>)
  ELSE Kept(<<>>)

PostgreSQLDisconnect(closeFails) ==
  IF connection # NONE
  THEN IF connObj # "open"
       THEN Kept(<<>>)
       ELSE Closed(<<"conn.close">>)
  ELSE Kept(<<>>)

disconnect(closeFails) ==
  CASE db_type = "firebird"   -> FirebirdDisconnect(closeFails)
    [] db_type = "mysql"      -> MySQLDisconnect(closeFails)
    [] db_type = "postgresql" -> PostgreSQLDisconnect(closeFails)

\* ------------------------------------------------------ lifecycle actions
Connect(refuse) ==
  /\ UNCHANGED <<managerVars, metadataVars>>
  /\ hist' = Track("idle", {}, {})
  /\ ~inBlock
  /\ \E r \in {connect(refuse)} :
       /\ r.leaked < MaxConns
       /\ connection' = r.connection
       /\ connObj' = r.connObj
       /\ leaked' = r.leaked
       /\ view' = r.view
       /\ last' = [NoCall EXCEPT !.op = "connect", !.outcome = r.outcome,
                                 !.calls = r.calls, !.kwargs = r.kwargs]
  /\ txn' = IF txn.stage = "committed" THEN txn ELSE NoTxn
  /\ UNCHANGED <<db_type, config, driver_available, committed, inBlock>>

Disconnect(closeFails) ==
  /\ UNCHANGED <<managerVars, metadataVars>>
  /\ hist' = Track("idle", {}, {})
  /\ ~inBlock
  /\ \E r \in {disconnect(closeFails)} :
       /\ connection' = r.connection
       /\ connObj' = r.connObj
       /\ view' = r.view
       /\ last' = [NoCall EXCEPT !.op = "disconnect", !.calls = r.calls]
  /\ txn' = IF txn.stage = "committed" THEN txn ELSE NoTxn
  /\ UNCHANGED <<db_type, config, driver_available, leaked, committed, inBlock>>

\* The peer drops the connection; its uncommitted work is lost.
PeerDrop ==
  /\ UNCHANGED <<managerVars, metadataVars>>
  /\ hist' = Track("idle", {}, {})
  /\ connection # NONE
  /\ connObj = "open"
  /\ connObj' = "dropped"
  /\ view' = committed
  /\ txn' = IF txn.stage = "committed" THEN txn ELSE NoTxn
  /\ UNCHANGED <<db_type, config, driver_available, connection, leaked,
                 committed, inBlock, last>>

\* ------------------------------------------------ the database (driver side)
\* A row of clientes is [id |-> k, nome |-> v]; a statement is the parsed form
\* of the SQL text: its verb and table, the columns and placeholders of its
\* VALUES / SET list, and the columns and placeholders of its WHERE clause.
Ids(rows) == {r.id : r \in rows}

\* The paramstyle each driver accepts in a statement.
Paramstyle ==
  IF db_type = "firebird" THEN "?" ELSE "%s"

Marks(sql) == sql.marks \o sql.wmarks

\* Value bound to column col among cols / vals, or dflt.
Bound(cols, vals, col, dflt) ==
  IF \E i \in 1..Len(cols) : cols[i] = col
  THEN vals[CHOOSE i \in 1..Len(cols) : cols[i] = col]
  ELSE dflt

\* The parameters bound to the SET / VALUES list and to the WHERE clause.
SetVals(sql, params)   == SubSeq(params, 1, Len(sql.cols))
WhereVals(sql, params) == SubSeq(params, Len(sql.cols) + 1, Len(params))

Matching(rows, sql, params) ==
  {r \in rows : \A i \in 1..Len(sql.wcols) :
                  r[sql.wcols[i]] = WhereVals(sql, params)[i]}

Updated(r, sql, params) ==
  [id   |-> Bound(sql.cols, SetVals(sql, params), "id", r.id),
   nome |-> Bound(sql.cols, SetVals(sql, params), "nome", r.nome)]

Inserted(sql, params) ==
  [id   |-> Bound(sql.cols, params, "id", NULL),
   nome |-> Bound(sql.cols, params, "nome", NULL)]

AfterUpdate(rows, sql, params) ==
  LET hit == Matching(rows, sql, params) IN
  (rows \ hit) \cup {Updated(r, sql, params) : r \in hit}

\* The statement is one the server accepts on the current transaction.
Accepted(sql, params) ==
  /\ sql.table = "clientes"
  /\ \A i \in 1..Len(Marks(sql)) : Marks(sql)[i] = Paramstyle
  /\ Len(Marks(sql)) = Len(params)
  /\ sql.verb = "INSERT" =>
       /\ Inserted(sql, params).id # NULL
       /\ Inserted(sql, params).id \notin Ids(view)
  /\ sql.verb = "UPDATE" =>
       LET after == AfterUpdate(view, sql, params) IN
       Cardinality(Ids(after)) = Cardinality(after)

\* Rows in primary-key order.
RECURSIVE InOrder(_, _)
InOrder(rows, k) ==
  IF k > MaxKey THEN <<>>
  ELSE (IF k \in Ids(rows) THEN <<CHOOSE r \in rows : r.id = k>> ELSE <<>>)
         \o InOrder(rows, k + 1)

\* A fetched row: a positional tuple from the Firebird cursor, a record keyed by
\* column name from the MySQL dictionary cursor and the PostgreSQL DictCursor.
Fetched(r) ==
  IF db_type = "firebird" THEN <<r.id, r.nome>> ELSE r

FetchAll(rows) ==
  LET ordered == InOrder(rows, 1) IN
  [i \in 1..Len(ordered) |-> Fetched(ordered[i])]

\* Effect of an accepted statement: the rows fetched, cursor.rowcount, the view.
Effect(sql, params) ==
  LET hit == Matching(view, sql, params) IN
  CASE sql.verb = "INSERT" ->
         [rows |-> <<>>, count |-> 1, view |-> view \cup {Inserted(sql, params)}]
    [] sql.verb = "SELECT" ->
         [rows |-> FetchAll(hit), count |-> Cardinality(hit), view |-> view]
    [] sql.verb = "UPDATE" ->
         [rows |-> <<>>, count |-> Cardinality(hit),
          view |-> AfterUpdate(view, sql, params)]
    [] sql.verb = "DELETE" ->
         [rows |-> <<>>, count |-> Cardinality(hit), view |-> view \ hit]

\* ------------------------------------- execute_query / execute_update
\* The guard for a missing connection that goes on to ask the driver for a cursor.
NotConnected_AsksDriver ==
  [outcome |-> "DatabaseError", calls |-> <<"conn.cursor!">>, rows |-> <<>>,
   count |-> 0, view |-> view, errQuery |-> NoSql]

NotConnected ==
  [outcome |-> "ConnectionError", calls |-> <<>>, rows |-> <<>>, count |-> 0,
   view |-> view, errQuery |-> NoSql]

\* StatementFailed without the rollback.
StatementFailed_NoRollback(query, calls) ==
  [outcome |-> "DatabaseError", calls |-> calls, rows |-> <<>>, count |-> 0,
   view |-> view, errQuery |-> query]

\* The except branch: one best-effort rollback, then DatabaseError with the query.
\* The rollback raises on a lost connection; that error is only logged.
StatementFailed(query, calls) ==
  [outcome |-> "DatabaseError",
   calls |-> IF connection # NONE /\ HasAttr("rollback")
             THEN Append(calls, IF connObj = "open" THEN "conn.rollback"
                                ELSE "conn.rollback!")
             ELSE calls,
   rows |-> <<>>, count |-> 0,
   view |-> IF connection # NONE /\ HasAttr("rollback") /\ connObj = "open"
            THEN committed ELSE view,
   errQuery |-> query]

execute_query(query, params) ==
  IF connection = NONE THEN NotConnected
  ELSE IF connObj # "open" THEN StatementFailed(query, <<"conn.cursor!">>)
  ELSE IF ~Accepted(query, params)
       THEN StatementFailed(query, <<"conn.cursor", "cursor.execute!", "cursor.close">>)
  ELSE LET done == Effect(query, params) IN
       [outcome |-> "ok",
        calls |-> <<"conn.cursor", "cursor.execute", "cursor.fetchall", "cursor.close">>,
        rows |-> done.rows, count |-> 0, view |-> done.view, errQuery |-> NoSql]

\* execute_update whose cursor is closed on the successful path only.
execute_update_LeaksOnError(query, params) ==
  IF connection = NONE THEN NotConnected
  ELSE IF connObj # "open" THEN StatementFailed(query, <<"conn.cursor!">>)
  ELSE IF ~Accepted(query, params)
       THEN StatementFailed(query, <<"conn.cursor", "cursor.execute!">>)
  ELSE LET done == Effect(query, params) IN
       [outcome |-> "ok",
        calls |-> <<"conn.cursor", "cursor.execute", "cursor.close">>,
        rows |-> <<>>, count |-> done.count, view |-> done.view, errQuery |-> NoSql]

execute_update(query, params) ==
  IF connection = NONE THEN NotConnected
  ELSE IF connObj # "open" THEN StatementFailed(query, <<"conn.cursor!">>)
  ELSE IF ~Accepted(query, params)
       THEN StatementFailed(query, <<"conn.cursor", "cursor.execute!", "cursor.close">>)
  ELSE LET done == Effect(query, params) IN
       [outcome |-> "ok",
        calls |-> <<"conn.cursor", "cursor.execute", "cursor.close">>,
        rows |-> <<>>, count |-> done.count, view |-> done.view, errQuery |-> NoSql]

\* --------------------------------------- transaction control (connector)
TxResult(outcome, calls, newCommitted, newView) ==
  [outcome |-> outcome, calls |-> calls, committed |-> newCommitted, view |-> newView]

\* connection.begin() of the Firebird driver ends the transaction that is
\* active with its default action, commit, before it starts the new one.
start_transaction ==
  IF connection # NONE /\ HasAttr("begin")
  THEN IF connObj = "open"
       THEN TxResult("ok", <<"conn.begin">>, view, view)
       ELSE TxResult("DatabaseError", <<"conn.begin!">>, committed, view)
  ELSE TxResult("ok", <<>>, committed, view)

\* commit_transaction that reports success without committing.
commit_transaction_NoCommit ==
  IF connection = NONE THEN TxResult("ConnectionError", <<>>, committed, view)
  ELSE TxResult("ok", <<>>, committed, view)

commit_transaction ==
  IF connection = NONE THEN TxResult("ConnectionError", <<>>, committed, view)
  ELSE IF connObj = "open"
       THEN TxResult("ok", <<"conn.commit">>, view, view)
       ELSE TxResult("DatabaseError", <<"conn.commit!">>, committed, view)

\* rollback_transaction that reports success without rolling back.
rollback_transaction_NoRollback ==
  IF connection = NONE THEN TxResult("ConnectionError", <<>>, committed, view)
  ELSE TxResult("ok", <<>>, committed, view)

rollback_transaction ==
  IF connection = NONE THEN TxResult("ConnectionError", <<>>, committed, view)
  ELSE IF connObj = "open"
       THEN TxResult("ok", <<"conn.rollback">>, committed, committed)
       ELSE TxResult("DatabaseError", <<"conn.rollback!">>, committed, view)

\* ------------------------------------------------------------ CRUD engine
FirebirdPlaceholder   == "?"
MySQLPlaceholder      == "%s"
PostgreSQLPlaceholder == "%s"

get_placeholder ==
  CASE db_type = "firebird"   -> FirebirdPlaceholder
    [] db_type = "mysql"      -> MySQLPlaceholder
    [] db_type = "postgresql" -> PostgreSQLPlaceholder

\* A mapping (Python dict, insertion-ordered) is a sequence of <<column, value>>.
FieldMaps ==
  {<<>>}
    \cup {<< <<"id", k>> >> : k \in Keys}
    \cup {<< <<"nome", v>> >> : v \in Nomes}
    \cup {<< <<"id", k>>, <<"nome", v>> >> : k \in Keys, v \in Nomes}

ColsOf(m) == [i \in 1..Len(m) |-> m[i][1]]
ValsOf(m) == [i \in 1..Len(m) |-> m[i][2]]
Repeat(x, n) == [i \in 1..n |-> x]

CreateSql(table, data) ==
  [verb |-> "INSERT", table |-> table, cols |-> ColsOf(data),
   marks |-> Repeat(get_placeholder, Len(data)), wcols |-> <<>>, wmarks |-> <<>>]

ReadSql(table, conditions) ==
  [verb |-> "SELECT", table |-> table, cols |-> <<>>, marks |-> <<>>,
   wcols |-> ColsOf(conditions), wmarks |-> Repeat(get_placeholder, Len(conditions))]

\* UpdateSql with literal values in the WHERE clause instead of placeholders.
UpdateSql_NoWherePlaceholders(table, data, conditions) ==
  [verb |-> "UPDATE", table |-> table, cols |-> ColsOf(data),
   marks |-> Repeat(get_placeholder, Len(data)),
   wcols |-> ColsOf(conditions), wmarks |-> <<>>]

UpdateSql(table, data, conditions) ==
  [verb |-> "UPDATE", table |-> table, cols |-> ColsOf(data),
   marks |-> Repeat(get_placeholder, Len(data)),
   wcols |-> ColsOf(conditions), wmarks |-> Repeat(get_placeholder, Len(conditions))]

DeleteSql(table, conditions) ==
  [verb |-> "DELETE", table |-> table, cols |-> <<>>, marks |-> <<>>,
   wcols |-> ColsOf(conditions), wmarks |-> Repeat(get_placeholder, Len(conditions))]

UpdateParams(data, conditions) == ValsOf(data) \o ValsOf(conditions)

\* What a CRUD call yields: the connector's result, with the statement and the
\* parameters handed to the connector (NoSql when the connector is not reached).
Reached(r, sql, params) ==
  r @@ [sql |-> sql, params |-> params]

NotReached(outcome) ==
  [outcome |-> outcome, calls |-> <<>>, rows |-> <<>>, count |-> 0,
   view |-> view, errQuery |-> NoSql, sql |-> NoSql, params |-> <<>>]

\* create without the empty-mapping guard: the INSERT is sent with no columns.
create_NoEmptyGuard(table, data) ==
  Reached(execute_update(CreateSql(table, data), ValsOf(data)),
          CreateSql(table, data), ValsOf(data))

create(table, data) ==
  IF data = <<>> THEN NotReached("ok")
  ELSE Reached(execute_update(CreateSql(table, data), ValsOf(data)),
               CreateSql(table, data), ValsOf(data))

read(table, conditions) ==
  Reached(execute_query(ReadSql(table, conditions), ValsOf(conditions)),
          ReadSql(table, conditions), ValsOf(conditions))

update(table, data, conditions) ==
  IF data = <<>> THEN NotReached("ok")
  ELSE IF conditions = <<>> THEN NotReached("ValueError")
  ELSE Reached(execute_update(UpdateSql(table, data, conditions),
                              UpdateParams(data, conditions)),
               UpdateSql(table, data, conditions), UpdateParams(data, conditions))

delete(table, conditions) ==
  IF conditions = <<>> THEN NotReached("ValueError")
  ELSE Reached(execute_update(DeleteSql(table, conditions), ValsOf(conditions)),
               DeleteSql(table, conditions), ValsOf(conditions))

\* ------------------------------------------------------- scenario history
\* txn follows the scenario begin_transaction -> create(R) -> commit | rollback
\* on a connected connector: "begun", then "created" with R's key and fields
\* (only when no row with R's key existed, durable or pending), then
\* "committed" or "rolledback".  Any call outside the scenario ends it.
Settled == IF txn.stage \in {"committed", "rolledback"} THEN txn ELSE NoTxn
Durable == IF txn.stage = "committed" THEN txn ELSE NoTxn

KeyOf(data) == Bound(ColsOf(data), ValsOf(data), "id", NULL)

\* ------------------------------------------------------------ CRUD actions
Called(op, table, data, conditions, r) ==
  [NoCall EXCEPT !.op = op, !.table = table, !.fields = data, !.conds = conditions,
                 !.outcome = r.outcome, !.calls = r.calls, !.sql = r.sql,
                 !.params = r.params, !.errQuery = r.errQuery,
                 !.rows = r.rows, !.count = r.count]

Create(table, data) ==
  /\ UNCHANGED <<managerVars, metadataVars>>
  /\ \E r \in {create(table, data)} :
       /\ view' = r.view
       /\ hist' = Track(StillBegun(r.outcome = "ok"), hist.atBegin,
                        IF r.outcome = "ok" /\ r.sql # NoSql /\ inBlock
                          THEN (hist.made \cap r.view) \cup {Inserted(r.sql, r.params)}
                          ELSE hist.made)
       /\ last' = Called("create", table, data, <<>>, r)
       /\ txn' = IF /\ txn.stage = "begun"
                    /\ r.outcome = "ok"
                    /\ r.sql # NoSql
                    /\ KeyOf(data) \notin Ids(committed)
                 THEN [stage |-> "created", key |-> KeyOf(data), fields |-> data]
                 ELSE NoTxn
  /\ UNCHANGED <<db_type, config, driver_available, connection, connObj, leaked,
                 committed, inBlock>>

Read(table, conditions) ==
  /\ UNCHANGED <<managerVars, metadataVars>>
  /\ \E r \in {read(table, conditions)} :
       /\ view' = r.view
       /\ hist' = Track(StillBegun(r.outcome = "ok"), hist.atBegin, hist.made)
       /\ last' = Called("read", table, <<>>, conditions, r)
       /\ txn' = IF r.outcome = "ok" THEN Settled ELSE Durable
  /\ UNCHANGED <<db_type, config, driver_available, connection, connObj, leaked,
                 committed, inBlock>>

Update(table, data, conditions) ==
  /\ UNCHANGED <<managerVars, metadataVars>>
  /\ \E r \in {update(table, data, conditions)} :
       /\ view' = r.view
       /\ hist' = Track(StillBegun(r.outcome = "ok"), hist.atBegin,
                        IF r.outcome = "ok" THEN hist.made \cap r.view ELSE hist.made)
       /\ last' = Called("update", table, data, conditions, r)
       /\ txn' = IF r.sql = NoSql THEN Settled ELSE NoTxn
  /\ UNCHANGED <<db_type, config, driver_available, connection, connObj, leaked,
                 committed, inBlock>>

Delete(table, conditions) ==
  /\ UNCHANGED <<managerVars, metadataVars>>
  /\ \E r \in {delete(table, conditions)} :
       /\ view' = r.view
       /\ hist' = Track(StillBegun(r.outcome = "ok"), hist.atBegin,
                        IF r.outcome = "ok" THEN hist.made \cap r.view ELSE hist.made)
       /\ last' = Called("delete", table, <<>>, conditions, r)
       /\ txn' = IF r.sql = NoSql THEN Settled ELSE NoTxn
  /\ UNCHANGED <<db_type, config, driver_available, connection, connObj, leaked,
                 committed, inBlock>>

\* CRUD.begin_transaction / commit / rollback delegate to the connector and
\* re-raise what it raises.
BeginTransaction ==
  /\ UNCHANGED <<managerVars, metadataVars>>
  /\ \E r \in {start_transaction} :
       /\ committed' = r.committed
       /\ view' = r.view
       /\ hist' = Track(IF r.outcome = "ok" /\ connection # NONE /\ connObj = "open"
                          THEN "begun" ELSE "idle",
                        view, hist.made)
       /\ last' = [NoCall EXCEPT !.op = "begin_transaction", !.outcome = r.outcome,
                                 !.calls = r.calls]
       /\ txn' = IF r.outcome = "ok" /\ connection # NONE /\ connObj = "open"
                 THEN [NoTxn EXCEPT !.stage = "begun"]
                 ELSE Durable
  /\ UNCHANGED <<db_type, config, driver_available, connection, connObj, leaked,
                 inBlock>>

Commit ==
  /\ UNCHANGED <<managerVars, metadataVars>>
  /\ \E r \in {commit_transaction} :
       /\ committed' = r.committed
       /\ view' = r.view
       /\ hist' = Track("idle", {}, hist.made)
       /\ last' = [NoCall EXCEPT !.op = "commit", !.outcome = r.outcome,
                                 !.calls = r.calls]
       /\ txn' = IF txn.stage = "created" /\ r.outcome = "ok"
                 THEN [txn EXCEPT !.stage = "committed"]
                 ELSE IF r.outcome = "ok" THEN Settled ELSE Durable
  /\ UNCHANGED <<db_type, config, driver_available, connection, connObj, leaked,
                 inBlock>>

Rollback ==
  /\ UNCHANGED <<managerVars, metadataVars>>
  /\ \E r \in {rollback_transaction} :
       /\ committed' = r.committed
       /\ view' = r.view
       /\ hist' = Track(IF r.outcome = "ok" /\ hist.stage = "begun"
                          THEN "rolledback" ELSE "idle",
                        hist.atBegin,
                        IF r.outcome = "ok" THEN {} ELSE hist.made)
       /\ last' = [NoCall EXCEPT !.op = "rollback", !.outcome = r.outcome,
                                 !.calls = r.calls]
       /\ txn' = IF txn.stage = "created" /\ r.outcome = "ok"
                 THEN [txn EXCEPT !.stage = "rolledback"]
                 ELSE IF r.outcome = "ok" THEN Settled ELSE Durable
  /\ UNCHANGED <<db_type, config, driver_available, connection, connObj, leaked,
                 inBlock>>

\* ------------------------------- get_table_metadata on the connection
\* What get_table_metadata does to the connector's connection: the statements
\* it sends through execute_query, and the outcome.  (What it returns for a
\* given catalog is FirebirdMetadata, MySQLMetadata, PostgreSQLMetadata.)
\* A catalog query is a SELECT the server accepts; denied: the server rejects
\* SELECT COUNT(*) on the table itself (no privilege on it).
CatalogSql == [NoSql EXCEPT !.verb = "SELECT", !.table = "clientes"]
DeniedSql  == [NoSql EXCEPT !.verb = "SELECT", !.table = "missing"]

RECURSIVE Times(_, _)
Times(seq, n) == IF n = 0 THEN <<>> ELSE seq \o Times(seq, n - 1)

\* n catalog queries in a row, none inside a try: the first failure leaves
\* get_table_metadata.
CatalogQueries(n) ==
  LET q == execute_query(CatalogSql, <<>>)
  IN  IF q.outcome = "ok"
        THEN [outcome |-> "ok", calls |-> Times(q.calls, n), view |-> q.view]
        ELSE [outcome |-> q.outcome, calls |-> q.calls, view |-> q.view]

\* Firebird: columns, primary key, foreign keys, indexes; then the row count
\* and the table comment, each in a try whose except only logs.
FirebirdQueries(denied) ==
  LET required == CatalogQueries(4)
      count == execute_query(IF denied THEN DeniedSql ELSE CatalogSql, <<>>)
  IN  IF required.outcome # "ok" THEN required
      ELSE [outcome |-> "ok",
            calls |-> required.calls \o count.calls \o CatalogQueries(1).calls,
            view |-> count.view]

\* MySQL: table info, columns, foreign keys, indexes.
MySQLQueries(denied) == CatalogQueries(4)

\* PostgreSQL: exact name, table info, columns, primary key, foreign keys, indexes.
PostgreSQLQueries(denied) == CatalogQueries(6)

metadata_queries(denied) ==
  CASE db_type = "firebird"   -> FirebirdQueries(denied)
    [] db_type = "mysql"      -> MySQLQueries(denied)
    [] db_type = "postgresql" -> PostgreSQLQueries(denied)

Introspect(denied) ==
  /\ UNCHANGED <<managerVars, metadataVars>>
  /\ \E r \in {metadata_queries(denied)} :
       /\ view' = r.view
       /\ last' = [NoCall EXCEPT !.op = "get_table_metadata", !.outcome = r.outcome,
                                 !.calls = r.calls]
       /\ txn' = IF r.view = view THEN Settled ELSE Durable
  /\ hist' = Track("idle", {}, hist.made)
  /\ UNCHANGED <<db_type, config, driver_available, connection, connObj, leaked,
                 committed, inBlock>>

\* ------------------------------------------------- guarded block (with)
\* __enter__ calls connect(); the block is entered only if connect() returns.
Enter(refuse) ==
  /\ UNCHANGED <<managerVars, metadataVars>>
  /\ hist' = Track("idle", {}, {})
  /\ ~inBlock
  /\ \E r \in {connect(refuse)} :
       /\ r.leaked < MaxConns
       /\ connection' = r.connection
       /\ connObj' = r.connObj
       /\ leaked' = r.leaked
       /\ view' = r.view
       /\ inBlock' = (r.outcome = "ok")
       /\ last' = [NoCall EXCEPT !.op = "enter", !.outcome = r.outcome,
                                 !.calls = r.calls, !.kwargs = r.kwargs]
  /\ txn' = Durable
  /\ UNCHANGED <<db_type, config, driver_available, committed>>

\* __exit__ returns None: an exception raised in the block is not suppressed.
ExitSuppresses == FALSE

\* __exit__ that disconnects only on the clean path.
exit_NoDisconnectWhenRaised(exc, closeFails) ==
  IF connection # NONE /\ ~exc
  THEN [outcome |-> "ok",
        calls |-> <<Tried("conn.commit"), "disconnect">> \o disconnect(closeFails).calls,
        committed |-> IF connObj = "open" THEN view ELSE committed,
        connection |-> disconnect(closeFails).connection,
        connObj |-> disconnect(closeFails).connObj]
  ELSE [outcome |-> IF exc THEN "raised" ELSE "ok",
        calls |-> IF connection # NONE THEN <<Tried("conn.rollback")>> ELSE <<>>,
        committed |-> committed, connection |-> connection, connObj |-> connObj]

\* __exit__ whose disconnect() is inside the try of the commit / rollback.
exit_DisconnectInsideTry(exc, closeFails) ==
  IF connection # NONE
  THEN [outcome |-> IF exc THEN "raised" ELSE "ok",
        calls |-> <<Tried(IF exc THEN "conn.rollback" ELSE "conn.commit")>>
                  \o (IF connObj = "open"
                      THEN <<"disconnect">> \o disconnect(closeFails).calls
                      ELSE <<>>),
        committed |-> IF ~exc /\ connObj = "open" THEN view ELSE committed,
        connection |-> IF connObj = "open" THEN disconnect(closeFails).connection
                       ELSE connection,
        connObj |-> IF connObj = "open" THEN disconnect(closeFails).connObj
                    ELSE connObj]
  ELSE [outcome |-> IF exc THEN "raised" ELSE "ok",
        calls |-> <<>>, committed |-> committed,
        connection |-> connection, connObj |-> connObj]

\* __exit__(exc_type, ...): when the connector holds a connection, a rollback
\* if the block raised (exc), else a commit; a failure of either is logged
\* only; then disconnect().  The result tells whether the block's exception
\* leaves the with-statement ("raised").
exit(exc, closeFails) ==
  IF connection # NONE
  THEN [outcome |-> IF exc /\ ~ExitSuppresses THEN "raised" ELSE "ok",
        calls |-> (IF exc
                   THEN (IF HasAttr("rollback") THEN <<Tried("conn.rollback")>> ELSE <<>>)
                   ELSE (IF HasAttr("commit") THEN <<Tried("conn.commit")>> ELSE <<>>))
                  \o <<"disconnect">> \o disconnect(closeFails).calls,
        committed |-> IF ~exc /\ HasAttr("commit") /\ connObj = "open"
                      THEN view ELSE committed,
        connection |-> disconnect(closeFails).connection,
        connObj |-> disconnect(closeFails).connObj]
  ELSE [outcome |-> IF exc /\ ~ExitSuppresses THEN "raised" ELSE "ok",
        calls |-> <<>>, committed |-> committed,
        connection |-> connection, connObj |-> connObj]

\* exc: the block raised.  What is left uncommitted is gone after the exit:
\* rolled back, or discarded with the connection.
Exit(exc, closeFails) ==
  /\ UNCHANGED <<managerVars, metadataVars>>
  /\ hist' = Track("idle", {}, hist.made)
  /\ inBlock
  /\ inBlock' = FALSE
  /\ \E r \in {exit(exc, closeFails)} :
       /\ committed' = r.committed
       /\ view' = r.committed
       /\ connection' = r.connection
       /\ connObj' = r.connObj
       /\ last' = [NoCall EXCEPT !.op = "exit", !.exc = exc, !.outcome = r.outcome,
                                 !.calls = r.calls]
  /\ txn' = Durable
  /\ UNCHANGED <<db_type, config, driver_available, leaked>>


\* ================================================= DBConnectionManager
\* ------------------------------------------------------ strings and bytes
\* A string value is the sequence of its characters; a configuration value is
\* a string or None (also: the key is missing, dict.get() gives None).
Str(text) == [str |-> TRUE, text |-> text]
Absent    == [str |-> FALSE, text |-> <<>>]

Alphabet == {"a", "b"}
Texts    == UNION {[1..n -> Alphabet] : n \in 0..MaxLen}

\* str.encode() / bytes.decode(): a character and its code.
Charset == <<"a", "b", "x", "y", "g", "1", "2", "E", "N", "C", ":", "!">>
Ord(ch) == CHOOSE i \in 1..Len(Charset) : Charset[i] = ch
Chr(n)  == Charset[n]
Encode(text)  == [i \in 1..Len(text) |-> Ord(text[i])]
Decode(bytes) == [i \in 1..Len(bytes) |-> Chr(bytes[i])]

\* ------------------------------------------------ cryptography.fernet
\* Fernet(key) accepts a well-formed key only.  A token is a version byte,
\* the ciphertext under the key, and the signature under the key; decrypt
\* verifies all three before it deciphers.
FernetKeys == {"k1", "k2"}

Sig(k) == IF k = "k1" THEN Ord("1") ELSE Ord("2")
Rot(k, b)   == IF (k = "k1") = (b = Ord("a")) THEN Ord("x") ELSE Ord("y")
Unrot(k, c) == IF (k = "k1") = (c = Ord("x")) THEN Ord("a") ELSE Ord("b")

FernetEncrypt(k, data) ==
  <<Ord("g")>> \o [i \in 1..Len(data) |-> Rot(k, data[i])] \o <<Sig(k)>>

InvalidToken(k, token) ==
  ~ /\ Len(token) >= 2
    /\ token[1] = Ord("g")
    /\ token[Len(token)] = Sig(k)
    /\ \A i \in 2..(Len(token) - 1) : token[i] \in {Ord("x"), Ord("y")}

FernetDecrypt(k, token) ==
  [i \in 1..(Len(token) - 2) |-> Unrot(k, token[i + 1])]

\* ---------------------------------------------------- configuration file
Marker == <<"E", "N", "C", ":">>

\* The value pasted into the configuration file for a credential: the marker
\* and f.encrypt(clear.encode()).decode().
Encrypted(k, clear) == Str(Marker \o Decode(FernetEncrypt(k, Encode(clear))))

\* Texts that follow the marker and are no token of any key.
CorruptTokens == {<<>>, <<"g", "x">>, <<"g", "!", "1">>, <<"!">>}

PasswordValues ==
  {Absent}
    \cup {Str(p) : p \in Texts}
    \cup {Encrypted(k, p) : k \in FernetKeys, p \in Texts}
    \cup {Str(Marker \o c) : c \in CorruptTokens}

KeyPaths == {"secret.key", "custom.key"}

\* The configuration files a manager is constructed on.
FileConfigs ==
  [db_type        : {"postgresql"},
   host           : {Str(<<"a">>), Str(Marker \o <<"!">>)},
   database       : {Str(<<"b">>), Encrypted("k2", <<"b">>)},
   user           : {Str(<<"a">>), Encrypted("k1", <<"a">>), Str(Marker \o <<"g", "x">>)},
   password       : PasswordValues,
   key_file_path  : {NONE, "custom.key"},
   encryption_key : {NONE, "k1", "bad"}]

\* {}: every key missing.
EmptyConfig ==
  [db_type |-> NONE, host |-> Absent, database |-> Absent, user |-> Absent,
   password |-> Absent, key_file_path |-> NONE, encryption_key |-> NONE]

\* A key file is "absent", "unreadable", or holds a text.
KeyFileCases ==
  {[p \in KeyPaths |-> IF p = "secret.key" THEN a ELSE b] :
     a \in {"absent", "unreadable", " ", "k1\n", "bad"}, b \in {"absent", "k2"}}

EnvKeyCases == {NONE, "", "k2"}

NoManagerCall ==
  [op |-> "none", outcome |-> "ok", source |-> "none", key |-> NONE,
   constructed |-> FALSE, requested |-> "", listed |-> {}, built |-> "none"]

\* ------------------------------------------------------------ _load_config
load_config ==
  IF file_state = "ok" THEN [outcome |-> "ok", raw |-> file_config]
  ELSE [outcome |-> "ConfigError", raw |-> EmptyConfig]

\* --------------------------------------------------------- _decrypt_config
\* f.read().strip() of a key file
KeyText(content) ==
  CASE content = "k1\n" -> "k1"
    [] content = " "    -> ""
    [] OTHER            -> content

KeyFileCandidate(raw) ==
  IF ~Falsy(raw.key_file_path) THEN raw.key_file_path ELSE "secret.key"

KeyFileExists(raw) == key_files[KeyFileCandidate(raw)] # "absent"

\* The key sources tried with the environment variable before the key file.
ResolveKey_EnvFirst(raw) ==
  IF ~Falsy(env_key) THEN [source |-> "env", key |-> env_key]
  ELSE IF KeyFileExists(raw) /\ ~Falsy(KeyText(key_files[KeyFileCandidate(raw)]))
    THEN [source |-> "file", key |-> KeyText(key_files[KeyFileCandidate(raw)])]
  ELSE IF ~Falsy(raw.encryption_key)
    THEN [source |-> "config", key |-> raw.encryption_key]
  ELSE [source |-> "none", key |-> NONE]

\* encryption_key_b64 after the three attempts (the key file is readable).
ResolveKey(raw) ==
  IF KeyFileExists(raw) /\ ~Falsy(KeyText(key_files[KeyFileCandidate(raw)]))
    THEN [source |-> "file", key |-> KeyText(key_files[KeyFileCandidate(raw)])]
  ELSE IF ~Falsy(env_key) THEN [source |-> "env", key |-> env_key]
  ELSE IF ~Falsy(raw.encryption_key)
    THEN [source |-> "config", key |-> raw.encryption_key]
  ELSE [source |-> "none", key |-> NONE]

\* isinstance(current_value, str) and current_value.startswith(prefix)
StartsWith(v, prefix) ==
  /\ v.str
  /\ Len(v.text) >= Len(prefix)
  /\ SubSeq(v.text, 1, Len(prefix)) = prefix

\* current_value[4:].encode()
Ciphertext(v) == Encode(SubSeq(v.text, Len(Marker) + 1, Len(v.text)))

\* The ciphertext taken one character early, current_value[3:].
DecryptValue_KeepsMarkerEnd(k, v) ==
  LET token == Encode(SubSeq(v.text, Len(Marker), Len(v.text)))
  IN  IF InvalidToken(k, token) THEN Absent
      ELSE Str(Decode(FernetDecrypt(k, token)))

\* The value stored for a marked field: the clear text, or None.
DecryptValue(k, v) ==
  IF InvalidToken(k, Ciphertext(v)) THEN Absent
  ELSE Str(Decode(FernetDecrypt(k, Ciphertext(v))))

SensitiveKeys == <<"password", "user", "database", "host">>

\* The loop over the sensitive keys, abandoned at the first invalid token.
RECURSIVE DecryptFields_StopAtInvalid(_, _, _, _)
DecryptFields_StopAtInvalid(k, raw, cfg, i) ==
  IF i > Len(SensitiveKeys) THEN cfg
  ELSE LET key == SensitiveKeys[i]
       IN  IF StartsWith(raw[key], Marker)
             THEN IF DecryptValue(k, raw[key]) = Absent
                    THEN [cfg EXCEPT ![key] = Absent]
                    ELSE DecryptFields_StopAtInvalid(
                           k, raw, [cfg EXCEPT ![key] = DecryptValue(k, raw[key])], i + 1)
             ELSE DecryptFields_StopAtInvalid(k, raw, cfg, i + 1)

\* The loop over the sensitive keys from the i-th on: values are read from
\* raw and written to cfg.
RECURSIVE DecryptFields(_, _, _, _)
DecryptFields(k, raw, cfg, i) ==
  IF i > Len(SensitiveKeys) THEN cfg
  ELSE LET key == SensitiveKeys[i]
       IN  IF StartsWith(raw[key], Marker)
             THEN DecryptFields(k, raw, [cfg EXCEPT ![key] = DecryptValue(k, raw[key])], i + 1)
             ELSE DecryptFields(k, raw, cfg, i + 1)

Decrypted(outcome, resolved, raw, cfg) ==
  [outcome |-> outcome, source |-> resolved.source, key |-> resolved.key,
   raw |-> raw, decrypted |-> cfg]

\* _decrypt_config writing through to the object it read from (no deep copy).
decrypt_config_InPlace(raw) ==
  IF key_files[KeyFileCandidate(raw)] = "unreadable"
    THEN Decrypted("SecurityError", [source |-> "none", key |-> NONE], raw, raw)
  ELSE LET resolved == ResolveKey(raw)
       IN  IF resolved.source = "none" THEN Decrypted("ok", resolved, raw, raw)
           ELSE IF resolved.key \notin FernetKeys
             THEN Decrypted("SecurityError", resolved, raw, raw)
           ELSE Decrypted("ok", resolved, DecryptFields(resolved.key, raw, raw, 1),
                          DecryptFields(resolved.key, raw, raw, 1))

\* raw: self.raw_config on entry.  decrypted starts as a deep copy of raw.
decrypt_config(raw) ==
  IF key_files[KeyFileCandidate(raw)] = "unreadable"
    THEN Decrypted("SecurityError", [source |-> "none", key |-> NONE], raw, raw)
  ELSE LET resolved == ResolveKey(raw)
       IN  IF resolved.source = "none" THEN Decrypted("ok", resolved, raw, raw)
           ELSE IF resolved.key \notin FernetKeys
             THEN Decrypted("SecurityError", resolved, raw, raw)
           ELSE Decrypted("ok", resolved, raw, DecryptFields(resolved.key, raw, raw, 1))

\* ------------------------------------------------------------- __init__
manager_init ==
  IF load_config.outcome # "ok"
    THEN Decrypted(load_config.outcome, [source |-> "none", key |-> NONE],
                   load_config.raw, EmptyConfig)
    ELSE decrypt_config(load_config.raw)

Construct ==
  /\ mgr.op = "none"
  /\ \E r \in {manager_init} :
       /\ raw_config' = r.raw
       /\ decrypted_config' = r.decrypted
       /\ mgr' = [NoManagerCall EXCEPT !.op = "init", !.outcome = r.outcome,
                                       !.source = r.source, !.key = r.key,
                                       !.constructed = (r.outcome = "ok")]
  /\ UNCHANGED <<file_state, file_config, key_files, env_key>>
  /\ UNCHANGED registryVars
  /\ UNCHANGED <<connectorVars, metadataVars>>

\* No manager: the state of the manager's variables while the connector runs.
VaultIdle ==
  /\ file_state = "ok"
  /\ file_config = EmptyConfig
  /\ key_files = [p \in KeyPaths |-> "absent"]
  /\ env_key = NONE
  /\ raw_config = EmptyConfig
  /\ decrypted_config = EmptyConfig
  /\ mgr = NoManagerCall

\* No connector yet: the state of the connector's variables before one is built.
ConnectorIdle ==
  /\ db_type = "postgresql"
  /\ config = BaseConfig
  /\ driver_available = TRUE
  /\ connection = NONE
  /\ connObj = "none"
  /\ leaked = 0
  /\ committed = {}
  /\ view = {}
  /\ inBlock = FALSE
  /\ txn = NoTxn
  /\ last = NoCall
  /\ hist = NoHist


\* ------------------------------------------------- registry and factory
\* str.lower()
Lower(s) ==
  CASE s = "MySQL" -> "mysql"
    [] s = "T"     -> "t"
    [] s = "P"     -> "p"
    [] s = "ID"    -> "id"
    [] s = "X"     -> "x"
    [] s = "Y"     -> "y"
    [] s = "FK_A"  -> "fk_a"
    [] s = "IDX_A" -> "idx_a"
    [] s = "IDX_B" -> "idx_b"
    [] OTHER       -> s

\* db_type values of a configuration file; NONE: the key is missing.
DbTypes == {"firebird", "mysql", "postgresql", "postgres", "MySQL", "oracle", NONE}

\* DBConnectionManager._CONNECTOR_MAP of connectorDB
CONNECTOR_MAP ==
  [firebird |-> "FirebirdConnector", mysql |-> "MySQLConnector",
   postgresql |-> "PostgreSQLConnector"]

\* What a lookup yields: the exception raised or "ok", the identifier looked
\* up, the identifiers the exception's message lists, the class instantiated.
Lookup(outcome, requested, listed, built) ==
  [NoManagerCall EXCEPT !.outcome = outcome, !.requested = requested,
                        !.listed = listed, !.built = built, !.constructed = TRUE]

\* connectorDB.DBConnectionManager.get_connector
get_connector ==
  LET db == Lower(IF decrypted_config.db_type = NONE THEN ""
                  ELSE decrypted_config.db_type)
  IN  IF db \notin DOMAIN CONNECTOR_MAP THEN Lookup("ConfigError", db, {}, "none")
      ELSE IF db \notin drivers THEN Lookup("ImportError", db, {}, "none")
      ELSE Lookup("ok", db, {}, CONNECTOR_MAP[db])

GetConnector ==
  /\ mgr.constructed
  /\ mgr' = [get_connector EXCEPT !.op = "get_connector"]
  /\ UNCHANGED <<file_state, file_config, key_files, env_key, raw_config,
                 decrypted_config>>
  /\ UNCHANGED registryVars
  /\ UNCHANGED <<connectorVars, metadataVars>>

\* The driver module a connector module of connector_manager imports.
DriverOf(identifier) == IF identifier = "postgres" THEN "postgresql" ELSE identifier

\* _connectors after the class body ran: a connector module is registered
\* when its import succeeded.  "builtin" is one of the three classes of
\* connector_firebird / connector_mysql / connector_postgres.
Imported(loaded) ==
  [k \in {i \in {"firebird", "mysql", "postgres"} : DriverOf(i) \in loaded}
     |-> "builtin"]

\* register_connector(db_type, connector_class)
register_connector(identifier) ==
  [k \in DOMAIN connectors \cup {Lower(identifier)} |->
     IF k = Lower(identifier) THEN "custom" ELSE connectors[k]]

RegisterConnector(identifier) ==
  /\ connectors' = register_connector(identifier)
  /\ mgr' = [NoManagerCall EXCEPT !.op = "register_connector",
                                  !.requested = Lower(identifier),
                                  !.constructed = mgr.constructed]
  /\ UNCHANGED <<drivers, file_state, file_config, key_files, env_key, raw_config,
                 decrypted_config>>
  /\ UNCHANGED <<connectorVars, metadataVars>>

\* connector_manager.DBConnectionManager.get_connector(db_type, **db_config).
\* The three built-in classes hand keyword arguments to
\* IDBConnector.__init__(connection_config): the TypeError is re-raised as
\* DatabaseError.  fails: a registered class fails to construct or connect.
registry_get_connector(identifier, fails) ==
  IF Lower(identifier) \notin DOMAIN connectors
    THEN Lookup("ValueError", Lower(identifier), DOMAIN connectors, "none")
  ELSE IF connectors[Lower(identifier)] = "builtin"
    THEN Lookup("DatabaseError", Lower(identifier), {}, "none")
  ELSE IF fails
    THEN Lookup("DatabaseError", Lower(identifier), {}, "custom")
  ELSE Lookup("ok", Lower(identifier), {}, "custom")

RegistryGetConnector(identifier, fails) ==
  /\ mgr' = [registry_get_connector(identifier, fails)
               EXCEPT !.op = "registry.get_connector",
                      !.constructed = mgr.constructed]
  /\ UNCHANGED <<file_state, file_config, key_files, env_key, raw_config,
                 decrypted_config>>
  /\ UNCHANGED registryVars
  /\ UNCHANGED <<connectorVars, metadataVars>>

\* =============================================== metadata introspection
\* get_table_metadata on an open connection whose catalog queries succeed.
\* The table t has the columns x (NOT NULL) and y, in this order.  The name
\* "ghost" is of no table; the table "hollow" exists and shows no column.
MetaTables == {"t", "ghost", "hollow"}

\* A value of a numeric catalog column as the driver hands it over: null, a
\* string, or an integer.
SqlNull      == [kind |-> "null", text |-> "",   val |-> 0]
SqlText(txt) == [kind |-> "str",  text |-> txt,  val |-> 0]
SqlInt(n)    == [kind |-> "int",  text |-> "",   val |-> n]

\* A VARCHAR column: type code 37.
VarcharCode == 37

CatalogNumbers ==
  {SqlNull, SqlText(" "), SqlText("abc"), SqlText("37"), SqlInt(VarcharCode)}

\* int(value) raises: TypeError on None, ValueError on a string that is not
\* a number (surrounding blanks are accepted).
IntRaises(value) ==
  \/ value.kind = "null"
  \/ value.kind = "str" /\ value.text \notin {"37"}

IntError(value) == IF value.kind = "null" THEN "TypeError" ELSE "ValueError"

\* int(value) where it does not raise
IntOf(value) == IF value.kind = "int" THEN value.val ELSE VarcharCode

\* _safe_int_conversion(value): None for None, for a blank string and for
\* what int() rejects.
_safe_int_conversion(value) ==
  IF value.kind = "null" THEN SqlNull
  ELSE IF value.kind = "str" /\ value.text = " " THEN SqlNull
  ELSE IF IntRaises(value) THEN SqlNull
  ELSE SqlInt(IntOf(value))

\* str.upper()
Upper(s) ==
  CASE s = "t"     -> "T"
    [] s = "p"     -> "P"
    [] s = "id"    -> "ID"
    [] s = "x"     -> "X"
    [] s = "y"     -> "Y"
    [] s = "fk_a"  -> "FK_A"
    [] s = "idx_a" -> "IDX_A"
    [] s = "idx_b" -> "IDX_B"
    [] OTHER       -> s

\* A CHAR value of the Firebird system tables: the text and its blank padding.
Char(text)   == [text |-> text, pad |-> 3]
Trimmed(text) == [text |-> text, pad |-> 0]
NullChar     == [text |-> NONE, pad |-> 0]

\* Python truthiness of such a value, and str(value).strip()
Truthy(v)   == v # NullChar /\ (v.text # "" \/ v.pad > 0)
Stripped(v) == v.text

\* str(value)
PyStr(v) == IF v = NONE THEN "None" ELSE v

Vocabulary == {"CASCADE", "SET NULL", "SET DEFAULT", "NO ACTION", "RESTRICT", "UNKNOWN"}

\* The action a catalog reports for a foreign key: a rule, null (NONE), or a
\* value the connector does not know ("DEFERRED").
RawActions ==
  {"CASCADE", "SET NULL", "SET DEFAULT", "NO ACTION", "RESTRICT", NONE, "DEFERRED"}

ForeignKey(column, on_update) ==
  [name |-> "fk_a", column |-> column, on_update |-> on_update, on_delete |-> "CASCADE"]

\* No foreign key, fk_a on y with each action, fk_a on (x, y).
ForeignKeyCases ==
  {<<>>}
    \cup {<<ForeignKey("y", a)>> : a \in RawActions}
    \cup {<<ForeignKey("x", "CASCADE"), ForeignKey("y", "CASCADE")>>}

IndexRows    == [name : {"idx_a", "idx_b"}, column : {"x", "y"}]
IndexRowSeqs == UNION {[1..n -> IndexRows] : n \in 0..MaxRows}

\* The table, and what is left to the database and the driver: whether
\* Firebird stores 0 or null as the NULL_FLAG of a nullable column, whether the
\* PostgreSQL driver hands a "char" value over as an integer or as a string.
\* numbers: the numeric catalog values of its columns (type code, length,
\* sub-type code) and of the table (row estimate).
PlainNumbers ==
  [field_type |-> SqlInt(VarcharCode), field_length |-> SqlInt(VarcharCode),
   field_sub_type |-> SqlNull, table_rows |-> SqlInt(0)]

LogicalTables ==
  [y_nullable     : BOOLEAN,
   null_flag_zero : BOOLEAN,
   pk             : {<<>>, <<"x">>, <<"y", "x">>},
   fks            : ForeignKeyCases,
   char_as_int    : BOOLEAN,
   index_rows     : IndexRowSeqs,
   numbers        : {PlainNumbers}]

\* The table without keys and indexes, with every numeric catalog value.
NumberedTables ==
  [y_nullable     : {FALSE},
   null_flag_zero : {FALSE},
   pk             : {<<>>},
   fks            : {<<>>},
   char_as_int    : {TRUE},
   index_rows     : {<<>>},
   numbers        : [field_type : CatalogNumbers, field_length : CatalogNumbers,
                     field_sub_type : CatalogNumbers, table_rows : CatalogNumbers]]

InSeq(x, seq) == \E i \in 1..Len(seq) : seq[i] = x

Nullable(t, col) == col = "y" /\ t.y_nullable

\* table: the name get_table_metadata was called with.
Metadata(outcome, name, columns, primary_keys, foreign_keys, indexes, row_count) ==
  [table |-> "", outcome |-> outcome, name |-> name, columns |-> columns,
   primary_keys |-> primary_keys, foreign_keys |-> foreign_keys,
   indexes |-> indexes, row_count |-> row_count]

NoMetadata == Metadata("none", "", <<>>, <<>>, <<>>, <<>>, SqlNull)

\* get_table_metadata raised exc
MetadataError(exc) == [NoMetadata EXCEPT !.outcome = exc]

\* The loop over the index rows <<name, column>> that makes a new entry for a
\* name already seen instead of appending to its entry.
RECURSIVE GroupIndexes_EntryPerRow(_, _)
GroupIndexes_EntryPerRow(rows, indexes) ==
  IF rows = <<>> THEN indexes
  ELSE GroupIndexes_EntryPerRow(
         Tail(rows),
         Append(indexes, [name |-> Head(rows).name, columns |-> <<Head(rows).column>>]))

\* The loop over the index rows: indexes is the dict's entries in insertion
\* order; a row appends its column to the entry of its index name, which is
\* created empty when the name is new.
RECURSIVE GroupIndexes(_, _)
GroupIndexes(rows, indexes) ==
  IF rows = <<>> THEN indexes
  ELSE LET row == Head(rows)
           known == \E i \in 1..Len(indexes) : indexes[i].name = row.name
           entries == IF known THEN indexes
                      ELSE Append(indexes, [name |-> row.name, columns |-> <<>>])
       IN  GroupIndexes(
             Tail(rows),
             [i \in 1..Len(entries) |->
                IF entries[i].name = row.name
                  THEN [entries[i] EXCEPT !.columns = Append(@, row.column)]
                  ELSE entries[i]])

\* ------------------------------------------------------------- Firebird
\* The rows the Firebird system tables give for t: upper-case names in CHAR
\* columns, NULL_FLAG 1 for NOT NULL.
FirebirdCatalog(t) ==
  [columns |->
     [i \in 1..2 |->
        [name |-> Char(Upper(<<"x", "y">>[i])),
         field_type |-> t.numbers.field_type,
         field_length |-> t.numbers.field_length,
         field_sub_type |-> t.numbers.field_sub_type,
         null_flag |-> IF ~Nullable(t, <<"x", "y">>[i]) THEN "1"
                       ELSE IF t.null_flag_zero THEN "0" ELSE NONE]],
   pk |-> [i \in 1..Len(t.pk) |-> Char(Upper(t.pk[i]))],
   fk |-> [i \in 1..Len(t.fks) |->
             [name |-> Char(Upper(t.fks[i].name)),
              column |-> Trimmed(Upper(t.fks[i].column)),
              referenced_table |-> Trimmed("P"),
              referenced_column |-> Trimmed("ID"),
              update_rule |-> IF t.fks[i].on_update = NONE THEN NullChar
                              ELSE Char(t.fks[i].on_update),
              delete_rule |-> IF t.fks[i].on_delete = NONE THEN NullChar
                              ELSE Char(t.fks[i].on_delete)]],
   indexes |-> [i \in 1..Len(t.index_rows) |->
                  [name |-> Char(Upper(t.index_rows[i].name)),
                   column |-> Char(Upper(t.index_rows[i].column))]],
   count |-> SqlInt(0)]

\* fk_action_map.get(raw, 'UNKNOWN')
FirebirdAction(raw) ==
  LET val == IF Truthy(raw) THEN Stripped(raw) ELSE ""
  IN  IF val \in {"CASCADE", "SET NULL", "SET DEFAULT", "NO ACTION", "RESTRICT"}
        THEN val ELSE "UNKNOWN"

\* The loop over the foreign-key rows: the first row of a constraint name
\* makes its entry, later rows of the name are skipped.
RECURSIVE FirebirdForeignKeys(_, _)
FirebirdForeignKeys(rows, fks) ==
  IF rows = <<>> THEN fks
  ELSE LET row == Head(rows)
           fk_name == IF Truthy(row.name) THEN Stripped(row.name) ELSE "UNNAMED_FK"
       IN  IF \E i \in 1..Len(fks) : fks[i].name = fk_name
             THEN FirebirdForeignKeys(Tail(rows), fks)
             ELSE FirebirdForeignKeys(
                    Tail(rows),
                    Append(fks, [name |-> fk_name,
                                 column_name |-> Stripped(row.column),
                                 referenced_table_name |-> Stripped(row.referenced_table),
                                 referenced_column_name |-> Stripped(row.referenced_column),
                                 on_update |-> FirebirdAction(row.update_rule),
                                 on_delete |-> FirebirdAction(row.delete_rule)]))

\* The first conversion of a column row that raises, if one does:
\* int(row[1]), then int(row[8]) unless row[8] is None.
FirebirdRowRaises(row) ==
  \/ IntRaises(row.field_type)
  \/ row.field_sub_type # SqlNull /\ IntRaises(row.field_sub_type)

FirebirdRowError(row) ==
  IF IntRaises(row.field_type) THEN IntError(row.field_type)
  ELSE IntError(row.field_sub_type)

FirebirdMetadata(table_name, cat) ==
  IF cat.columns = <<>> THEN MetadataError("ValueError")
  ELSE IF \E i \in 1..Len(cat.columns) : FirebirdRowRaises(cat.columns[i])
    THEN MetadataError(
           FirebirdRowError(
             cat.columns[CHOOSE i \in 1..Len(cat.columns) :
                           /\ FirebirdRowRaises(cat.columns[i])
                           /\ \A j \in 1..(i - 1) : ~FirebirdRowRaises(cat.columns[j])]))
  ELSE
  Metadata("ok", Upper(table_name),
    [i \in 1..Len(cat.columns) |->
       [name |-> Stripped(cat.columns[i].name),
        is_nullable |-> cat.columns[i].null_flag = "0",
        is_primary_key |-> FALSE,
        max_length |-> _safe_int_conversion(cat.columns[i].field_length)]],
    [i \in 1..Len(cat.pk) |-> Stripped(cat.pk[i])],
    FirebirdForeignKeys(cat.fk, <<>>),
    GroupIndexes([i \in 1..Len(cat.indexes) |->
                    [name |-> Stripped(cat.indexes[i].name),
                     column |-> Stripped(cat.indexes[i].column)]], <<>>),
    _safe_int_conversion(cat.count))

\* ---------------------------------------------------------------- MySQL
\* The rows information_schema gives for t.
MySQLCatalog(t) ==
  [columns |->
     [i \in 1..2 |->
        [COLUMN_NAME |-> <<"x", "y">>[i],
         CHARACTER_MAXIMUM_LENGTH |-> t.numbers.field_length,
         IS_NULLABLE |-> IF Nullable(t, <<"x", "y">>[i]) THEN "YES" ELSE "NO",
         COLUMN_KEY  |-> IF InSeq(<<"x", "y">>[i], t.pk) THEN "PRI" ELSE ""]],
   fk |-> [i \in 1..Len(t.fks) |->
             [CONSTRAINT_NAME |-> t.fks[i].name,
              COLUMN_NAME |-> t.fks[i].column,
              REFERENCED_TABLE_NAME |-> "p",
              REFERENCED_COLUMN_NAME |-> "id",
              UPDATE_RULE |-> t.fks[i].on_update,
              DELETE_RULE |-> t.fks[i].on_delete]],
   indexes |-> [i \in 1..Len(t.index_rows) |->
                  [INDEX_NAME |-> t.index_rows[i].name,
                   COLUMN_NAME |-> t.index_rows[i].column]],
   table_info |-> <<[table_rows |-> t.numbers.table_rows]>>]

MySQLColumns(rows) ==
  [i \in 1..Len(rows) |->
     [name |-> PyStr(rows[i].COLUMN_NAME),
      is_nullable |-> PyStr(rows[i].IS_NULLABLE) = "YES",
      is_primary_key |-> PyStr(rows[i].COLUMN_KEY) = "PRI",
      max_length |-> _safe_int_conversion(rows[i].CHARACTER_MAXIMUM_LENGTH)]]

\* primary_keys.append(col_name) for the columns with is_pk, in column order
RECURSIVE KeyColumns(_)
KeyColumns(columns) ==
  IF columns = <<>> THEN <<>>
  ELSE (IF Head(columns).is_primary_key THEN <<Head(columns).name>> ELSE <<>>)
         \o KeyColumns(Tail(columns))

\* MySQLMetadata without the check for an empty column result.
MySQLMetadata_NoColumnsCheck(table_name, cat) ==
  Metadata("ok", table_name,
    MySQLColumns(cat.columns),
    KeyColumns(MySQLColumns(cat.columns)),
    [i \in 1..Len(cat.fk) |->
       [name |-> PyStr(cat.fk[i].CONSTRAINT_NAME),
        column_name |-> PyStr(cat.fk[i].COLUMN_NAME),
        referenced_table_name |-> PyStr(cat.fk[i].REFERENCED_TABLE_NAME),
        referenced_column_name |-> PyStr(cat.fk[i].REFERENCED_COLUMN_NAME),
        on_update |-> PyStr(cat.fk[i].UPDATE_RULE),
        on_delete |-> PyStr(cat.fk[i].DELETE_RULE)]],
    GroupIndexes([i \in 1..Len(cat.indexes) |->
                    [name |-> PyStr(cat.indexes[i].INDEX_NAME),
                     column |-> PyStr(cat.indexes[i].COLUMN_NAME)]], <<>>),
    IF cat.table_info # <<>>
      THEN _safe_int_conversion(cat.table_info[1].table_rows) ELSE SqlNull)

MySQLMetadata(table_name, cat) ==
  IF cat.columns = <<>> THEN MetadataError("ValueError")
  ELSE
  Metadata("ok", table_name,
    MySQLColumns(cat.columns),
    KeyColumns(MySQLColumns(cat.columns)),
    [i \in 1..Len(cat.fk) |->
       [name |-> PyStr(cat.fk[i].CONSTRAINT_NAME),
        column_name |-> PyStr(cat.fk[i].COLUMN_NAME),
        referenced_table_name |-> PyStr(cat.fk[i].REFERENCED_TABLE_NAME),
        referenced_column_name |-> PyStr(cat.fk[i].REFERENCED_COLUMN_NAME),
        on_update |-> PyStr(cat.fk[i].UPDATE_RULE),
        on_delete |-> PyStr(cat.fk[i].DELETE_RULE)]],
    GroupIndexes([i \in 1..Len(cat.indexes) |->
                    [name |-> PyStr(cat.indexes[i].INDEX_NAME),
                     column |-> PyStr(cat.indexes[i].COLUMN_NAME)]], <<>>),
    IF cat.table_info # <<>>
      THEN _safe_int_conversion(cat.table_info[1].table_rows) ELSE SqlNull)

\* ----------------------------------------------------------- PostgreSQL
\* pg_constraint.confupdtype / confdeltype, a "char"
PgActionChar(action) ==
  CASE action = "NO ACTION"   -> "a"
    [] action = "RESTRICT"    -> "r"
    [] action = "CASCADE"     -> "c"
    [] action = "SET NULL"    -> "n"
    [] action = "SET DEFAULT" -> "d"
    [] action = "DEFERRED"    -> "z"
    [] action = NONE          -> NONE

\* The value the driver hands over for such a "char".
PgChar(t, action) ==
  [is_int |-> t.char_as_int /\ action # NONE, char |-> PgActionChar(action)]

\* The rows the PostgreSQL catalogs give for t.
PostgreSQLCatalog(t) ==
  [columns |->
     [i \in 1..2 |->
        [column_name |-> <<"x", "y">>[i],
         character_maximum_length |-> t.numbers.field_length,
         is_nullable |-> IF Nullable(t, <<"x", "y">>[i]) THEN "YES" ELSE "NO",
         is_primary_key |-> InSeq(<<"x", "y">>[i], t.pk)]],
   pk |-> [i \in 1..Len(t.pk) |-> [attname |-> t.pk[i]]],
   fk |-> [i \in 1..Len(t.fks) |->
             [conname |-> t.fks[i].name,
              column_name |-> t.fks[i].column,
              referenced_table_name |-> "p",
              referenced_column_name |-> "id",
              confupdtype |-> PgChar(t, t.fks[i].on_update),
              confdeltype |-> PgChar(t, t.fks[i].on_delete)]],
   indexes |-> [i \in 1..Len(t.index_rows) |->
                  [index_name |-> t.index_rows[i].name,
                   column_name |-> t.index_rows[i].column]],
   relname |-> <<"t">>,
   table_info |-> <<[row_count |-> t.numbers.table_rows]>>]

\* chr(value) raises TypeError unless value is an integer
ChrRaises(v) == ~v.is_int

\* fk_actions.get(chr(value), 'UNKNOWN')
PostgreSQLAction(v) ==
  CASE v.char = "a" -> "NO ACTION"
    [] v.char = "r" -> "RESTRICT"
    [] v.char = "c" -> "CASCADE"
    [] v.char = "n" -> "SET NULL"
    [] v.char = "d" -> "SET DEFAULT"
    [] OTHER        -> "UNKNOWN"

\* first_row.get('reltuples'): the row has the keys of the query's aliases,
\* total_bytes, table_comment and row_count.
Reltuples(row) == SqlNull

PostgreSQLMetadata(table_name, cat) ==
  IF cat.relname = <<>> THEN MetadataError("ValueError")
  ELSE IF cat.columns = <<>> THEN MetadataError("ValueError")
  ELSE IF \E i \in 1..Len(cat.fk) :
       ChrRaises(cat.fk[i].confupdtype) \/ ChrRaises(cat.fk[i].confdeltype)
    THEN MetadataError("TypeError")
  ELSE
    Metadata("ok", cat.relname[1],
      [i \in 1..Len(cat.columns) |->
         [name |-> PyStr(cat.columns[i].column_name),
          is_nullable |-> PyStr(cat.columns[i].is_nullable) = "YES",
          is_primary_key |-> cat.columns[i].is_primary_key,
          max_length |-> _safe_int_conversion(cat.columns[i].character_maximum_length)]],
      [i \in 1..Len(cat.pk) |-> PyStr(cat.pk[i].attname)],
      [i \in 1..Len(cat.fk) |->
         [name |-> PyStr(cat.fk[i].conname),
          column_name |-> PyStr(cat.fk[i].column_name),
          referenced_table_name |-> PyStr(cat.fk[i].referenced_table_name),
          referenced_column_name |-> PyStr(cat.fk[i].referenced_column_name),
          on_update |-> PostgreSQLAction(cat.fk[i].confupdtype),
          on_delete |-> PostgreSQLAction(cat.fk[i].confdeltype)]],
      GroupIndexes([i \in 1..Len(cat.indexes) |->
                      [name |-> PyStr(cat.indexes[i].index_name),
                       column |-> PyStr(cat.indexes[i].column_name)]], <<>>),
      IF cat.table_info # <<>>
        THEN _safe_int_conversion(Reltuples(cat.table_info[1])) ELSE SqlNull)

\* ------------------------------------------------------ get_table_metadata
\* The rows the catalog queries give when they ask for table_name (WHERE
\* ... = table_name): those of t, none for a name that is of no table, the
\* table's own entry alone for hollow.
Queried(cat, table_name) ==
  [f \in DOMAIN cat |->
     CASE table_name = "t" -> cat[f]
       [] f = "count" -> cat[f]
       [] table_name = "hollow" /\ f = "relname" -> <<table_name>>
       [] table_name = "hollow" /\ f = "table_info" -> cat[f]
       [] OTHER -> <<>>]

get_table_metadata(dialect, table_name) ==
  CASE dialect = "firebird" ->
         FirebirdMetadata(table_name, Queried(FirebirdCatalog(logical), table_name))
    [] dialect = "mysql" ->
         MySQLMetadata(table_name, Queried(MySQLCatalog(logical), table_name))
    [] dialect = "postgresql" ->
         PostgreSQLMetadata(table_name, Queried(PostgreSQLCatalog(logical), table_name))

GetTableMetadata(dialect, table_name) ==
  /\ metadata' = [metadata EXCEPT ![dialect] =
                    [get_table_metadata(dialect, table_name) EXCEPT !.table = table_name]]
  /\ UNCHANGED logical
  /\ UNCHANGED <<connectorVars, managerVars>>

\* No introspection: the state of its variables while other parts run.
MetadataIdle ==
  /\ logical = <<>>
  /\ metadata = <<>>

RegistryIdle ==
  /\ drivers = Dialects
  /\ connectors = Imported(Dialects)

\* A configuration file without encrypted fields, for each db_type.
RegistryConfigs ==
  {[db_type |-> t, host |-> Str(<<"a">>), database |-> Str(<<"b">>),
    user |-> Str(<<"a">>), password |-> Str(<<"b">>),
    key_file_path |-> NONE, encryption_key |-> NONE] : t \in DbTypes}

RegistryInit ==
  /\ ConnectorIdle
  /\ file_state = "ok"
  /\ file_config \in RegistryConfigs
  /\ key_files = [p \in KeyPaths |-> "absent"]
  /\ env_key = NONE
  /\ raw_config = EmptyConfig
  /\ decrypted_config = EmptyConfig
  /\ mgr = NoManagerCall
  /\ drivers \in SUBSET Dialects
  /\ connectors = Imported(drivers)
  /\ MetadataIdle

RegistryNext ==
  \/ Construct
  \/ GetConnector
  \/ \E t \in {"sqlite", "firebird"} : RegisterConnector(t)
  \/ \E t \in DbTypes \ {NONE}, fails \in BOOLEAN : RegistryGetConnector(t, fails)

SpecRegistry == RegistryInit /\ [][RegistryNext]_vars

VaultInit ==
  /\ ConnectorIdle
  /\ \/ file_state = "ok" /\ file_config \in FileConfigs
     \/ file_state \in {"missing", "dir", "badjson"} /\ file_config = EmptyConfig
  /\ key_files \in KeyFileCases
  /\ env_key \in EnvKeyCases
  /\ raw_config = EmptyConfig
  /\ decrypted_config = EmptyConfig
  /\ mgr = NoManagerCall
  /\ RegistryIdle
  /\ MetadataIdle

VaultNext == Construct

SpecVault == VaultInit /\ [][VaultNext]_vars

MetadataInit ==
  /\ ConnectorIdle
  /\ VaultIdle
  /\ RegistryIdle
  /\ logical \in LogicalTables
  /\ metadata = [d \in Dialects |-> NoMetadata]

MetadataNext == \E d \in Dialects : GetTableMetadata(d, "t")

SpecMetadata == MetadataInit /\ [][MetadataNext]_vars

\* get_table_metadata for every name, on every numeric catalog value.
CatalogInit ==
  /\ ConnectorIdle
  /\ VaultIdle
  /\ RegistryIdle
  /\ logical \in NumberedTables
  /\ metadata = [d \in Dialects |-> NoMetadata]

CatalogNext == \E d \in Dialects, n \in MetaTables : GetTableMetadata(d, n)

SpecCatalog == CatalogInit /\ [][CatalogNext]_vars

\* ----------------------------------------------------------- specification
Init ==
  /\ db_type \in Dialects
  /\ config \in ConfigCases
  /\ driver_available \in BOOLEAN
  /\ connection = NONE
  /\ connObj = "none"
  /\ leaked = 0
  /\ committed = {}
  /\ view = {}
  /\ inBlock = FALSE
  /\ txn = NoTxn
  /\ last = NoCall
  /\ hist = NoHist
  /\ VaultIdle
  /\ RegistryIdle
  /\ MetadataIdle

Next ==
  \/ \E refuse \in BOOLEAN : Connect(refuse)
  \/ \E closeFails \in BOOLEAN : Disconnect(closeFails)
  \/ PeerDrop
  \/ \E refuse \in BOOLEAN : Enter(refuse)
  \/ \E exc \in BOOLEAN, closeFails \in BOOLEAN : Exit(exc, closeFails)
  \/ \E t \in Tables, d \in FieldMaps : Create(t, d)
  \/ \E t \in QueryTables, c \in FieldMaps : Read(t, c)
  \/ \E t \in Tables, d \in FieldMaps, c \in FieldMaps : Update(t, d, c)
  \/ \E t \in Tables, c \in FieldMaps : Delete(t, c)
  \/ BeginTransaction
  \/ Commit
  \/ Rollback

Spec == Init /\ [][Next]_vars

\* The connector's lifecycle on every configuration of the recognized keys.
ConnectInit ==
  /\ db_type \in Dialects
  /\ config \in ConnectConfigs
  /\ driver_available \in BOOLEAN
  /\ connection = NONE
  /\ connObj = "none"
  /\ leaked = 0
  /\ committed = {}
  /\ view = {}
  /\ inBlock = FALSE
  /\ txn = NoTxn
  /\ last = NoCall
  /\ hist = NoHist
  /\ VaultIdle
  /\ RegistryIdle
  /\ MetadataIdle

ConnectNext ==
  \/ \E refuse \in BOOLEAN : Connect(refuse)
  \/ \E closeFails \in BOOLEAN : Disconnect(closeFails)
  \/ PeerDrop
  \/ \E refuse \in BOOLEAN : Enter(refuse)
  \/ \E exc \in BOOLEAN, closeFails \in BOOLEAN : Exit(exc, closeFails)

SpecConnect == ConnectInit /\ [][ConnectNext]_vars

\* Sessions in guarded blocks on a connector that can connect, with their
\* history kept.
SessionInit ==
  /\ db_type \in Dialects
  /\ config = BaseConfig
  /\ driver_available = TRUE
  /\ connection = NONE
  /\ connObj = "none"
  /\ leaked = 0
  /\ committed = {}
  /\ view = {}
  /\ inBlock = FALSE
  /\ txn = NoTxn
  /\ last = NoCall
  /\ hist = [NoHist EXCEPT !.on = TRUE]
  /\ VaultIdle
  /\ RegistryIdle
  /\ MetadataIdle

SessionNext ==
  \/ \E refuse \in BOOLEAN : Enter(refuse)
  \/ \E exc \in BOOLEAN, closeFails \in BOOLEAN : Exit(exc, closeFails)
  \/ \E t \in Tables, d \in FieldMaps : Create(t, d)
  \/ \E t \in QueryTables, c \in FieldMaps : Read(t, c)
  \/ \E t \in Tables, d \in FieldMaps, c \in FieldMaps : Update(t, d, c)
  \/ \E t \in Tables, c \in FieldMaps : Delete(t, c)
  \/ BeginTransaction
  \/ Commit
  \/ Rollback
  \/ \E denied \in BOOLEAN : Introspect(denied)

SpecSession == SessionInit /\ [][SessionNext]_vars

TypeOK ==
  /\ db_type \in Dialects
  /\ connection \in {NONE, "conn"}
  /\ connObj \in {"none", "open", "dropped"}
  /\ (connection = NONE) <=> (connObj = "none")
  /\ leaked \in 0..MaxConns
  /\ Cardinality(Ids(committed)) = Cardinality(committed)
  /\ Cardinality(Ids(view)) = Cardinality(view)
  /\ connObj # "open" => view = committed


\* ================================================================= claims
StatementOps == {"create", "read", "update", "delete"}

\* Attempts of a driver call in the last call's log, raising ones included.
Attempts(call, raising) == CountOf(last.calls, call) + CountOf(last.calls, raising)

\* C1: update and delete called with empty conditions fail with a validation
\* error (ValueError) whatever the table and the fields mapping, an empty
\* mapping included, and invoke no connector operation.
C1_EmptyConditionsRejected ==
  (last.op \in {"update", "delete"} /\ last.conds = <<>>)
    => (last.outcome = "ValueError" /\ last.calls = <<>> /\ last.sql = NoSql)

C4_AtMostOneOpenConnection ==
  OpenConnections <= 1

\* C5: after disconnect() returns the connector holds no connection, whatever
\* the state of the driver connection was, and disconnect() has not raised.
C5_DisconnectEndsDisconnected ==
  last.op = "disconnect" => (connection = NONE /\ last.outcome = "ok")

\* C6: connect() either returns with the connector Connected or raises
\* ConnectionError, never another error type.
C6_ConnectRaisesOnlyConnectionError ==
  last.op = "connect"
    => \/ last.outcome = "ok" /\ connection # NONE
       \/ last.outcome = "ConnectionError"

\* C7: when the statement of execute_query / execute_update fails (acquiring
\* the cursor or executing raises) on a connector that holds a connection,
\* exactly one rollback is attempted, after the statement, and DatabaseError
\* with the statement text is raised, also when the rollback raises.
StatementRaised ==
  /\ last.op \in StatementOps
  /\ \E i \in 1..Len(last.calls) : last.calls[i] \in {"conn.cursor!", "cursor.execute!"}

C7_FailedStatementRollsBackOnce ==
  StatementRaised
    => /\ last.outcome = "DatabaseError"
       /\ Attempts("conn.rollback", "conn.rollback!") = 1
       /\ last.calls[Len(last.calls)] \in {"conn.rollback", "conn.rollback!"}
       /\ last.errQuery = last.sql
       /\ last.sql # NoSql

\* A statement failed and the rollback raised too.
C7_Witness ==
  /\ StatementRaised
  /\ last.outcome = "DatabaseError"
  /\ CountOf(last.calls, "conn.rollback!") = 1
  /\ last.errQuery = last.sql

\* C8: after begin_transaction, a successful create of row R (no row with R's
\* key before) and rollback, R is not in the connection's view and a read for
\* R's key on that connection returns no rows.
ReadOfKey ==
  /\ last.op = "read"
  /\ last.outcome = "ok"
  /\ last.table = "clientes"
  /\ last.conds = << <<"id", txn.key>> >>

C8_RolledBackRowIsGone ==
  txn.stage = "rolledback"
    => /\ txn.key \notin Ids(view)
       /\ ReadOfKey => last.rows = <<>>

C8_Witness ==
  txn.stage = "rolledback" /\ ReadOfKey /\ last.rows = <<>>

\* C9: after begin_transaction, a successful create of row R (no row with R's
\* key before) and commit, a read for R's key returns exactly one row, whose
\* values are the inserted fields, and the row stays durable through a later
\* rollback or disconnect.
ValueIn(row, col) ==
  IF db_type = "firebird"
  THEN row[CHOOSE i \in 1..Len(Columns) : Columns[i] = col]
  ELSE row[col]

HasFields(row, data) ==
  \A i \in 1..Len(data) : ValueIn(row, data[i][1]) = data[i][2]

C9_CommittedRowIsReadBack ==
  txn.stage = "committed"
    => /\ \E r \in committed :
            /\ r.id = txn.key
            /\ \A i \in 1..Len(txn.fields) : r[txn.fields[i][1]] = txn.fields[i][2]
       /\ ReadOfKey => (Len(last.rows) = 1 /\ HasFields(last.rows[1], txn.fields))

C9_Witness ==
  /\ txn.stage = "committed"
  /\ ReadOfKey
  /\ Len(last.rows) = 1
  /\ Len(txn.fields) = 2

\* C10: get_placeholder() is "?" for Firebird and "%s" for MySQL and
\* PostgreSQL; every statement a CRUD call hands to the connector contains
\* only that placeholder, as many times as there are parameters: one per
\* field (create), one per condition (read, delete), one per field then one
\* per condition (update).
ExpectedPlaceholder ==
  IF db_type = "firebird" THEN "?" ELSE "%s"

C10_PlaceholdersMatchParameters ==
  /\ get_placeholder = ExpectedPlaceholder
  /\ (last.op \in StatementOps /\ last.sql # NoSql)
       => /\ \A i \in 1..Len(Marks(last.sql)) : Marks(last.sql)[i] = ExpectedPlaceholder
          /\ Len(Marks(last.sql)) = Len(last.params)
          /\ Len(last.sql.marks) = Len(last.fields)
          /\ Len(last.sql.wmarks) = Len(last.conds)
          /\ last.params = ValsOf(last.fields) \o ValsOf(last.conds)

C10_Witness ==
  /\ last.op = "update"
  /\ last.sql # NoSql
  /\ last.outcome = "ok"
  /\ Len(last.params) = 3

\* C11: create called with an empty fields mapping returns 0 and invokes no
\* connector operation, whatever the table and the state of the connector.
C11_EmptyCreateIsNoOp ==
  (last.op = "create" /\ last.fields = <<>>)
    => /\ last.outcome = "ok"
       /\ last.count = 0
       /\ last.calls = <<>>
       /\ last.sql = NoSql

\* An empty create on a connected connector with a pending insert, which a
\* round trip could disturb.
C11_Witness ==
  /\ last.op = "create"
  /\ last.fields = <<>>
  /\ connObj = "open"
  /\ view # committed

\* ------------------------------------------------------ credential vault
\* The path of the key file the vault reads, as the configuration file gives it.
KeyFilePath ==
  IF file_config.key_file_path \notin {NONE, ""} THEN file_config.key_file_path
  ELSE "secret.key"

\* A key source supplies a key when it holds a non-empty text.
FileSuppliesKey ==
  /\ key_files[KeyFilePath] \notin {"absent", "unreadable"}
  /\ KeyText(key_files[KeyFilePath]) # ""
EnvSuppliesKey    == env_key \notin {NONE, ""}
ConfigSuppliesKey == file_config.encryption_key \notin {NONE, ""}

\* The manager was constructed on a configuration file that loaded.
Loaded == mgr.op = "init" /\ file_state = "ok"

\* C12: the vault never mutates the raw configuration: once the manager is
\* constructed, whatever key was resolved and whether fields decrypted or
\* not, raw_config equals the content of the file; decrypted and nulled values
\* are in decrypted_config only.
C12_RawConfigIsNeverMutated ==
  Loaded => raw_config = file_config

\* A field was nulled and another decrypted, in the derived copy.
C12_Witness ==
  /\ Loaded
  /\ mgr.outcome = "ok"
  /\ decrypted_config.password = Absent
  /\ raw_config.password # Absent
  /\ decrypted_config.user # raw_config.user
  /\ raw_config = file_config

\* C13: the decryption key comes from the first source that supplies one, in
\* the order key file (key_file_path if configured, else secret.key), then
\* environment variable, then the encryption_key field; a lower source is
\* used only when every higher one supplies no key.
C13_KeySourcePriority ==
  (Loaded /\ key_files[KeyFilePath] # "unreadable")
    => /\ FileSuppliesKey
            => mgr.source = "file" /\ mgr.key = KeyText(key_files[KeyFilePath])
       /\ (~FileSuppliesKey /\ EnvSuppliesKey)
            => mgr.source = "env" /\ mgr.key = env_key
       /\ (~FileSuppliesKey /\ ~EnvSuppliesKey /\ ConfigSuppliesKey)
            => mgr.source = "config" /\ mgr.key = file_config.encryption_key
       /\ (~FileSuppliesKey /\ ~EnvSuppliesKey /\ ~ConfigSuppliesKey)
            => mgr.source = "none"

\* The three sources supply keys, the key file's differs from the others'.
C13_Witness ==
  /\ Loaded
  /\ FileSuppliesKey /\ EnvSuppliesKey /\ ConfigSuppliesKey
  /\ mgr.source = "file"
  /\ mgr.key # env_key

\* The clear text of a marked value under key k, when it is a token of k.
IsTokenOf(k, v, p) == v = Encrypted(k, p)

\* C14: with a well-formed key, a marked sensitive field whose ciphertext is
\* corrupt is absent in the decrypted configuration, the construction raises
\* nothing, and every other sensitive field is processed: decrypted when
\* marked, copied unchanged when not.
C14_CorruptFieldBecomesAbsent ==
  (Loaded /\ mgr.key \in FernetKeys)
    => /\ mgr.outcome = "ok"
       /\ \A f \in {"password", "user", "database", "host"} :
            IF StartsWith(file_config[f], Marker)
              THEN /\ \A p \in Texts :
                        IsTokenOf(mgr.key, file_config[f], p)
                          => decrypted_config[f] = Str(p)
                   /\ (\A p \in Texts : ~IsTokenOf(mgr.key, file_config[f], p))
                        => decrypted_config[f] = Absent
              ELSE decrypted_config[f] = file_config[f]

\* The password's ciphertext is corrupt, the user after it is decrypted.
C14_Witness ==
  /\ Loaded
  /\ mgr.key = "k1"
  /\ file_config.password = Str(Marker \o <<"g", "!", "1">>)
  /\ file_config.user = Encrypted("k1", <<"a">>)
  /\ decrypted_config.password = Absent
  /\ decrypted_config.user = Str(<<"a">>)
  /\ decrypted_config.database = file_config.database
  /\ mgr.outcome = "ok"

\* C15: for every plaintext password p and every valid key k, a configuration
\* whose password is the marker followed by encrypt(k, p), loaded by a vault
\* that resolves k, yields a decrypted password equal to p.
C15_EncryptDecryptRoundTrip ==
  \A k \in FernetKeys, p \in Texts :
    (Loaded /\ mgr.key = k /\ file_config.password = Encrypted(k, p))
      => /\ mgr.outcome = "ok"
         /\ decrypted_config.password = Str(p)

\* A password of the greatest length, round-tripped under the second key.
C15_Witness ==
  /\ Loaded
  /\ mgr.key = "k2"
  /\ \E p \in Texts :
       /\ Len(p) = MaxLen
       /\ file_config.password = Encrypted("k2", p)
       /\ decrypted_config.password = Str(p)

\* --------------------------------------------------- registry and factory
\* The latest call is a lookup of mgr.requested in a registry.
IsLookup == mgr.op \in {"get_connector", "registry.get_connector"}

\* The identifiers the registry that was asked knows.
KnownIdentifiers ==
  IF mgr.op = "get_connector" THEN DOMAIN CONNECTOR_MAP ELSE DOMAIN connectors

\* What that registry raises for an identifier it does not know.
UnknownIdentifierError ==
  IF mgr.op = "get_connector" THEN "ConfigError" ELSE "ValueError"

\* C16: looking up a dialect identifier that is not in the registry fails with
\* ConfigError, the message lists the identifiers the registry knows, and no
\* connector is constructed.
C16_UnknownIdentifierIsConfigErrorListingKnown ==
  (IsLookup /\ mgr.requested \notin KnownIdentifiers)
    => /\ mgr.outcome = "ConfigError"
       /\ mgr.listed = KnownIdentifiers
       /\ mgr.built = "none"

\* C17: when the driver of a known dialect failed to load at process start,
\* the factory constructs no connector for it and fails with a failure that
\* is not the one raised for an unknown identifier.
C17_DriverUnavailableIsDistinctFailure ==
  (IsLookup /\ DriverOf(mgr.requested) \in Dialects \ drivers)
    => /\ mgr.built = "none"
       /\ mgr.outcome \notin {"ok", UnknownIdentifierError}

\* ------------------------------------------------- metadata introspection
\* The connector of dialect d returned a TableMetadata.
Returned(d) == metadata[d].outcome = "ok"

LowerAll(names) == [i \in 1..Len(names) |-> Lower(names[i])]

\* The columns of the catalog rows of index n, in the order of the rows.
ColumnsOfIndex(rows, n) ==
  LET OfIndex(r) == r.name = n
  IN  [k \in 1..Len(SelectSeq(rows, OfIndex)) |-> SelectSeq(rows, OfIndex)[k].column]

\* C18: for every dialect and every sequence of index catalog rows, the
\* returned indexes hold exactly one IndexMetadata per distinct index name,
\* whose columns are the columns of that index's rows in the order returned.
C18_OneIndexEntryPerNameInRowOrder ==
  \A d \in Dialects :
    Returned(d)
      => LET idx == metadata[d].indexes
             rows == logical.index_rows
         IN  /\ \A i, j \in 1..Len(idx) : idx[i].name = idx[j].name => i = j
             /\ {Lower(idx[i].name) : i \in 1..Len(idx)}
                  = {rows[k].name : k \in 1..Len(rows)}
             /\ \A i \in 1..Len(idx) :
                  LowerAll(idx[i].columns) = ColumnsOfIndex(rows, Lower(idx[i].name))

\* idx_a on (x, y) came back as one entry with columns [x, y].
C18_Witness ==
  /\ Returned("postgresql")
  /\ Len(logical.index_rows) = MaxRows
  /\ \A k \in 1..Len(logical.index_rows) : logical.index_rows[k].name = "idx_a"
  /\ logical.index_rows[1].column = "x"
  /\ logical.index_rows[2].column = "y"
  /\ Len(metadata["postgresql"].indexes) = 1
  /\ SubSeq(metadata["postgresql"].indexes[1].columns, 1, 2) = <<"x", "y">>

\* C19: for every dialect, on_update and on_delete of every returned
\* ForeignKeyMetadata belong to the fixed vocabulary, whatever action value,
\* null and unrecognized ones included, the catalog reports.
C19_ForeignKeyActionsInVocabulary ==
  \A d \in Dialects :
    Returned(d)
      => \A i \in 1..Len(metadata[d].foreign_keys) :
           /\ metadata[d].foreign_keys[i].on_update \in Vocabulary
           /\ metadata[d].foreign_keys[i].on_delete \in Vocabulary

\* A TableMetadata with its names in lower case and without the table name.
Normalized(m) ==
  [columns |-> [i \in 1..Len(m.columns) |->
                  [m.columns[i] EXCEPT !.name = Lower(@)]],
   primary_keys |-> LowerAll(m.primary_keys),
   foreign_keys |-> [i \in 1..Len(m.foreign_keys) |->
                       [m.foreign_keys[i] EXCEPT
                          !.name = Lower(@), !.column_name = Lower(@),
                          !.referenced_table_name = Lower(@),
                          !.referenced_column_name = Lower(@)]],
   indexes |-> [i \in 1..Len(m.indexes) |->
                  [name |-> Lower(m.indexes[i].name),
                   columns |-> LowerAll(m.indexes[i].columns)]]]

\* C20: for catalogs that describe the same table, the TableMetadata the
\* Firebird, MySQL and PostgreSQL connectors return are equivalent up to name
\* casing: same column order, nullability and is_primary_key per column, same
\* primary_keys, same foreign-key entries, same index entries.
C20_DialectsReturnEquivalentMetadata ==
  \A d1, d2 \in Dialects :
    (Returned(d1) /\ Returned(d2))
      => Normalized(metadata[d1]) = Normalized(metadata[d2])

\* --------------------------------------------------- unresolved tables
\* The name the connector of dialect d was asked about is not of a table with
\* columns.
Unresolved(d) == metadata[d].table \in {"ghost", "hollow"}

\* C21: for every dialect, get_table_metadata for a table the catalog does
\* not resolve, or that has no columns, fails with the not-found error
\* (ValueError) and returns no TableMetadata, not even a partially filled one.
C21_UnresolvedTableIsNotFound ==
  \A d \in Dialects :
    Unresolved(d)
      => metadata[d] = [MetadataError("ValueError") EXCEPT !.table = metadata[d].table]

\* The three connectors were asked: Firebird about a name of no table, MySQL
\* and PostgreSQL about the table without columns.
C21_Witness ==
  /\ metadata["firebird"].table = "ghost"
  /\ metadata["mysql"].table = "hollow"
  /\ metadata["postgresql"].table = "hollow"
  /\ \A d \in Dialects : metadata[d].outcome = "ValueError"

\* ------------------------------------------------- foreign-key entries
\* The local column of the first catalog row of constraint n.
FirstSegment(rows, n) ==
  rows[CHOOSE k \in 1..Len(rows) :
         /\ rows[k].name = n
         /\ \A j \in 1..(k - 1) : rows[j].name # n].column

\* C25: for every dialect, the returned foreign_keys hold exactly one
\* ForeignKeyMetadata per foreign-key constraint name, and its local column is
\* the constraint's first segment, also when the catalog returns one row per
\* column segment of a multi-column constraint.
C25_OneForeignKeyPerConstraint ==
  \A d \in Dialects :
    Returned(d)
      => LET fk == metadata[d].foreign_keys
             rows == logical.fks
         IN  /\ \A i, j \in 1..Len(fk) : fk[i].name = fk[j].name => i = j
             /\ {Lower(fk[i].name) : i \in 1..Len(fk)}
                  = {rows[k].name : k \in 1..Len(rows)}
             /\ \A i \in 1..Len(fk) :
                  Lower(fk[i].column_name) = FirstSegment(rows, Lower(fk[i].name))

\* ------------------------------------------------- numeric conversions
\* A catalog value that is null, blank or not a number.
Unusable(value) ==
  \/ value.kind = "null"
  \/ value.kind = "str" /\ value.text \in {" ", "abc"}

\* C26: in every dialect, get_table_metadata never raises on account of a
\* numeric catalog value (type code, sub-type code, length, row count), and
\* each such value that is null, blank or non-numeric comes back absent.
C26_NumericConversionsNeverRaise ==
  \A d \in Dialects :
    metadata[d].table = "t"
      => /\ metadata[d].outcome = "ok"
         /\ \A i \in 1..Len(metadata[d].columns) :
              Unusable(logical.numbers.field_length)
                => metadata[d].columns[i].max_length = SqlNull
         /\ (d = "mysql" /\ Unusable(logical.numbers.table_rows))
              => metadata[d].row_count = SqlNull

\* ------------------------------------------------- configuration keys
\* The configuration names the database under dbname and is otherwise whole.
NamedByDbname ==
  /\ Falsy(config.database)
  /\ ~Falsy(config.dbname)
  /\ ~Falsy(config.host)
  /\ ~BlankCredential(config.user)
  /\ ~BlankCredential(config.password)
  /\ config.port = NONE

\* C22: a configuration that gives the database name under dbname instead of
\* database, with host, user and password present, passes the required-field
\* validation of connect() in every dialect: connect() gets as far as the
\* driver's connect call.
C22_DbnameIsAccepted ==
  (last.op \in {"connect", "enter"} /\ driver_available /\ NamedByDbname)
    => Attempts("driver.connect", "driver.connect!") = 1

\* C30: in every dialect and for every configuration, the driver's connect
\* call is never given encryption_key, key_file_path or schema.
C30_OnlyConnectionParametersReachDriver ==
  last.kwargs \cap {"encryption_key", "key_file_path", "schema"} = {}

\* -------------------------------------------------- no reconnect on demand
\* The step is a call of execute_query / execute_update (through the CRUD
\* engine), commit_transaction or rollback_transaction.
ConnectorCalled ==
  \/ last'.op \in StatementOps /\ last'.sql # NoSql
  \/ last'.op \in {"commit", "rollback"}

\* C23: execute_query, execute_update, commit_transaction and
\* rollback_transaction called on a Disconnected connector raise
\* ConnectionError, make no driver call and leave the connector Disconnected.
C23_NoReconnectOnDemand ==
  [][(connection = NONE /\ ConnectorCalled)
       => /\ last'.outcome = "ConnectionError"
          /\ last'.calls = <<>>
          /\ connection' = NONE
          /\ connObj' = "none"]_vars

\* An UPDATE was sent to a connector that has no connection.
C23_Witness ==
  /\ connection = NONE
  /\ last.op = "update"
  /\ last.sql # NoSql
  /\ last.outcome = "ConnectionError"

\* ------------------------------------------------------------- cursors
\* Cursors open after the first n calls of a log: those acquired less those
\* closed.
OpenCursors(calls, n) ==
  CountOf(SubSeq(calls, 1, n), "conn.cursor") - CountOf(SubSeq(calls, 1, n), "cursor.close")

\* C24: execute_query and execute_update release the cursor they acquire on
\* every exit path: no cursor is open after either returns or raises, and at
\* no point of a call is more than one cursor open.
C24_CursorReleasedOnEveryPath ==
  /\ \A n \in 0..Len(last.calls) : OpenCursors(last.calls, n) \in {0, 1}
  /\ OpenCursors(last.calls, Len(last.calls)) = 0

\* An INSERT the server rejected: the cursor was acquired, execute raised, the
\* cursor was closed before the rollback.
C24_Witness ==
  /\ last.op = "create"
  /\ last.outcome = "DatabaseError"
  /\ last.calls = <<"conn.cursor", "cursor.execute!", "cursor.close", "conn.rollback">>

\* --------------------------------------------------- pending updates
\* C27: when a guarded block exits without an exception, every row whose
\* INSERT returned successfully inside the block (and that the block did not
\* change afterwards) is committed, also when another statement of the block
\* failed and its DatabaseError was caught inside the block.
C27_CleanExitCommitsSuccessfulUpdates ==
  (last.op = "exit" /\ ~last.exc /\ last.calls[1] = "conn.commit")
    => hist.made \subseteq committed

\* C28: whenever get_table_metadata returns a TableMetadata, the rows the
\* caller's transaction sees, and so its updates not yet committed, are what
\* they were before the call, also when the row-count query fails.
C28_MetadataKeepsPendingUpdates ==
  [][(last'.op = "get_table_metadata" /\ last'.outcome = "ok")
       => (view' = view /\ committed' = committed)]_vars

\* C29: after a rollback() that follows begin_transaction(), the transaction
\* sees the rows it saw just before begin_transaction(): the updates made
\* since are undone, the uncommitted ones made before are still pending.
C29_RollbackUndoesOnlySinceBegin ==
  hist.stage = "rolledback" => view = hist.atBegin

====
